---- MODULE Spec2Model ----
(***************************************************************************)
(* Call-frame reconstruction (call_frames: buildCallFrames,                *)
(* validateFrames), the two trace parsers that feed the detector           *)
(* (parse_trace / parse_trace_local) and the rule-based detectors of       *)
(* scripts/vuln_detect.js, as one state machine over an instruction trace  *)
(* that is read one structLog at a time.                                   *)
(***************************************************************************)
EXTENDS Integers, Sequences, FiniteSets, TLC

VARIABLES
  parser,         \* which parser runs: "full" (parseTrace + buildCallFrames) or "local"
  nLogs,          \* structLogs.length
  structLogs,     \* the structLogs read so far (all of them once the loop is over)
  frames,         \* buildCallFrames: frames (frame id i is frames[i + 1])
  frameStack,     \* buildCallFrames: frameStack, as frame ids, top last
  stepToFrameId,  \* buildCallFrames: stepToFrameId
  lastDepth,      \* buildCallFrames: lastDepth
  callFrames,     \* parsed_trace.json: callFrames, as the ids of its frames
  trace,          \* VulnDetector: whether traceData (--trace trace.json) was given
  findings,       \* VulnDetector: findings
  lastId,         \* VulnDetector: this.id, the counter behind the finding ids
  slitherData,    \* the parsed slither.json handed to mergeFindings (null before the merge)
  mythrilData,    \* the parsed mythril.json handed to mergeFindings (null before the merge)
  merged,         \* the list mergeFindings returned
  vulnResult,     \* vulnResult.findings, the list handed to mergeFindings, as its objects are now
  pc              \* position in the pipeline

vars == <<parser, nLogs, structLogs, frames, frameStack, stepToFrameId, lastDepth,
          callFrames, trace, findings, lastId, slitherData, mythrilData, merged, vulnResult,
          pc>>
detectorVars == <<trace, findings, lastId>>
mergerVars == <<slitherData, mythrilData, merged, vulnResult>>

(***************************************************************************)
(* Bounds of the model.                                                    *)
(***************************************************************************)
MaxSteps == 4
MaxDepth == 2
\* The length of the traces the 20-step and 50-step windows are checked on.
MaxWindowSteps == 52

\* The length of the traces the 5-step window of the arithmetic fallback is checked on.
MaxFallbackSteps == 7

(***************************************************************************)
(* JavaScript values.  null is NullId for a frame id, NullStr for a hex    *)
(* string, NullBytes for a byte string and "null" for a tri-state flag.    *)
(* A hex string is [pfx, len, val]: what stands before the digits ("0x" or  *)
(* nothing), the number of hex digits and their value, which determines    *)
(* the digits (leading zeros included) and so makes record equality string *)
(* equality.  A byte string ("0x" followed by two digits per byte) is the  *)
(* sequence of its bytes.                                                  *)
(***************************************************************************)
NullId == 0 - 1
NullStr == [pfx |-> "", len |-> 0 - 1, val |-> 0]
NullBytes == << 0 - 1 >>

Hex(pfx, len, val) == [pfx |-> pfx, len |-> len, val |-> val]

Max(a, b) == IF a >= b THEN a ELSE b
Min(a, b) == IF a <= b THEN a ELSE b

WordBytes == 32
AddrDigits == 40
SelectorBytes == 4

CallClassOps == {"CALL", "DELEGATECALL", "STATICCALL", "CALLCODE", "CREATE", "CREATE2"}

RECURSIVE Flatten(_)
Flatten(memoryWords) ==
  IF memoryWords = <<>> THEN <<>>
  ELSE Head(memoryWords) \o Flatten(Tail(memoryWords))

Zeros(n) == [i \in 1..n |-> 0]

\* readMemory: the window [offset, offset + size) of the flattened memory,
\* zero-padded on over-read; "0x" (no bytes) when size is 0.
readMemory(memoryWords, offset, size) ==
  IF size = 0 THEN <<>>
  ELSE LET memoryBytes == Flatten(memoryWords)
           last == Min(offset + size, Len(memoryBytes))
           got == IF offset + 1 > last THEN <<>> ELSE SubSeq(memoryBytes, offset + 1, last)
       IN got \o Zeros(size - Len(got))

\* readMemory pads with "00" until the result has size * 2 characters: for a size
\* no JavaScript string can hold, the padding loop ends in a RangeError.
\* HugeSize stands for every such size (the demo's inSize word is about 10^47).
HugeSize == 16 * 16 * 16 * 16 * 16 * 16 * 16
readMemoryThrows(size) == size >= HugeSize

\* getSelector: the first 4 bytes ("0x" + 8 digits), null under 10 characters.
getSelector(calldata) ==
  IF calldata = NullBytes \/ 2 + 2 * Len(calldata) < 10 THEN NullBytes
  ELSE SubSeq(calldata, 1, SelectorBytes)

\* parseInt(String(n), 16) for a JavaScript number n: its decimal digits read as hex.
RECURSIVE DecimalDigitsAsHex(_)
DecimalDigitsAsHex(n) ==
  IF n < 10 THEN n ELSE 16 * DecimalDigitsAsHex(n \div 10) + (n % 10)

\* hexToNumber applied to a hex string of the stack.
hexToNumber(hex) == IF hex = NullStr \/ hex.len = 0 THEN 0 ELSE hex.val

\* hexToNumber applied to log.gasCost, which the tracer gives as a number.
hexToNumberOfGas(gasCost) == IF gasCost = 0 THEN 0 ELSE DecimalDigitsAsHex(gasCost)

\* extractAddress: the last 40 digits, left-padded with zeros, behind "0x".
\* (Values are below 16^40, so slicing keeps val.)
extractAddress(hex) ==
  IF hex = NullStr THEN Hex("0x", AddrDigits, 0)
  ELSE Hex("0x", AddrDigits, hex.val)

(***************************************************************************)
(* Call metadata of the transaction (txMeta), as in demoValidation.        *)
(***************************************************************************)
TxFrom == Hex("0x", AddrDigits, 17)
TxTo == Hex("0x", AddrDigits, 34)
TxInput == <<18, 52, 86, 120>>
TxValue == Hex("0x", 1, 0)

\* stack[i] of JavaScript (index from 0) on a stack held as a sequence.
At(stack, i) == stack[i + 1]

RootFrame ==
  [id |-> 0, parentId |-> NullId, depthEnter |-> 0, depth |-> 0, type |-> "ROOT",
   from |-> TxFrom, to |-> TxTo, value |-> TxValue, input |-> TxInput,
   selector |-> getSelector(TxInput), gasSpent |-> 0, startStep |-> 0,
   endStep |-> IF nLogs > 0 THEN nLogs - 1 ELSE 0,
   success |-> "null", error |-> "null", children |-> <<>>]

\* Where each call-class opcode keeps its arguments on the stack (stack[0] is the
\* top): the stack length it needs and the indexes of to, value, offset and size
\* (NullId: the opcode has no such argument).
CallArgs(opcode) ==
  CASE opcode \in {"CALL", "CALLCODE"} ->
         [need |-> 7, to |-> 5, value |-> 4, offset |-> 3, size |-> 2]
    [] opcode \in {"DELEGATECALL", "STATICCALL"} ->
         [need |-> 6, to |-> 4, value |-> NullId, offset |-> 3, size |-> 2]
    [] opcode = "CREATE" ->
         [need |-> 3, to |-> NullId, value |-> 2, offset |-> 1, size |-> 0]
    [] opcode = "CREATE2" ->
         [need |-> 4, to |-> NullId, value |-> 3, offset |-> 2, size |-> 1]

\* The size handed to readMemory by a call-class step, 0 when the stack is too short.
InputSize(opcode, stack) ==
  IF Len(stack) >= CallArgs(opcode).need
  THEN hexToNumber(At(stack, CallArgs(opcode).size))
  ELSE 0

\* A short stack still yields value "0x0".
CallParams_ZeroValue(opcode, stack, memory) ==
  LET a == CallArgs(opcode)
      isCreate == opcode \in {"CREATE", "CREATE2"}
      inp == readMemory(memory, hexToNumber(At(stack, a.offset)), hexToNumber(At(stack, a.size)))
  IN IF Len(stack) >= a.need
     THEN [to |-> IF isCreate THEN NullStr ELSE extractAddress(At(stack, a.to)),
           value |-> IF a.value = NullId THEN Hex("0x", 1, 0) ELSE At(stack, a.value),
           input |-> inp,
           selector |-> IF isCreate THEN NullBytes ELSE getSelector(inp)]
     ELSE [to |-> NullStr, value |-> Hex("0x", 1, 0), input |-> NullBytes,
           selector |-> NullBytes]

\* The call parameters parsed from the stack; all null on a short stack.
CallParams(opcode, stack, memory) ==
  LET a == CallArgs(opcode)
      isCreate == opcode \in {"CREATE", "CREATE2"}
      inp == readMemory(memory, hexToNumber(At(stack, a.offset)), hexToNumber(At(stack, a.size)))
  IN IF Len(stack) >= a.need
     THEN [to |-> IF isCreate THEN NullStr ELSE extractAddress(At(stack, a.to)),
           value |-> IF a.value = NullId THEN Hex("0x", 1, 0) ELSE At(stack, a.value),
           input |-> inp,
           selector |-> IF isCreate THEN NullBytes ELSE getSelector(inp)]
     ELSE [to |-> NullStr, value |-> NullStr, input |-> NullBytes, selector |-> NullBytes]

\* The new frame takes the frame created just before it as its parent.
NewFrame_PrevParent(id, currentFrame, opcode, depth, step, stack, memory) ==
  LET p == CallParams(opcode, stack, memory)
  IN [id |-> id, parentId |-> id - 1, depthEnter |-> depth, depth |-> depth + 1,
      type |-> opcode, from |-> currentFrame.to, to |-> p.to, value |-> p.value,
      input |-> p.input, selector |-> p.selector, gasSpent |-> 0, startStep |-> step,
      endStep |-> step, success |-> "null", error |-> "null", children |-> <<>>]

\* The new frame starts at the step after the call.
NewFrame_NextStep(id, currentFrame, opcode, depth, step, stack, memory) ==
  LET p == CallParams(opcode, stack, memory)
  IN [id |-> id, parentId |-> currentFrame.id, depthEnter |-> depth, depth |-> depth + 1,
      type |-> opcode, from |-> currentFrame.to, to |-> p.to, value |-> p.value,
      input |-> p.input, selector |-> p.selector, gasSpent |-> 0, startStep |-> step + 1,
      endStep |-> step + 1, success |-> "null", error |-> "null", children |-> <<>>]

NewFrame(id, currentFrame, opcode, depth, step, stack, memory) ==
  LET p == CallParams(opcode, stack, memory)
  IN [id |-> id, parentId |-> currentFrame.id, depthEnter |-> depth, depth |-> depth + 1,
      type |-> opcode, from |-> currentFrame.to, to |-> p.to, value |-> p.value,
      input |-> p.input, selector |-> p.selector, gasSpent |-> 0, startStep |-> step,
      endStep |-> step, success |-> "null", error |-> "null", children |-> <<>>]

\* The frame-exit loop of a depth decrease: pops while the top frame's depth
\* is at least the new depth, never the root.
RECURSIVE PopFrames(_, _, _, _, _)
PopFrames(stk, fs, depth, step, nextOp) ==
  IF Len(stk) > 1 /\ fs[stk[Len(stk)] + 1].depth >= depth
  THEN LET fid == stk[Len(stk)]
           f == fs[fid + 1]
           exiting ==
             [f EXCEPT !.endStep = step - 1,
                       !.error = IF nextOp \in {"REVERT", "INVALID"} THEN nextOp ELSE @,
                       !.success = IF nextOp \in {"REVERT", "INVALID"} THEN "false"
                                   ELSE IF f.type # "ROOT" /\ f.success = "null" THEN "true"
                                   ELSE @]
       IN PopFrames(SubSeq(stk, 1, Len(stk) - 1), [fs EXCEPT ![fid + 1] = exiting],
                    depth, step, nextOp)
  ELSE [stack |-> stk, frames |-> fs]

\* currentFrame = frameStack[frameStack.length - 1]
currentFrameId(stk) == stk[Len(stk)]

\* currentFrame.children.push(newFrame.id)
AddChild(fs, cur, newId) == [fs EXCEPT ![cur + 1].children = Append(@, newId)]

\* stepToFrameId.push(currentFrame.id); RecordStep_Parent records the parent instead.
RecordStep_Parent(map, currentFrame) == Append(map, currentFrame.parentId)
RecordStep(map, currentFrame) == Append(map, currentFrame.id)

\* RETURN / STOP / REVERT / INVALID set the status of the frame the step ran in.
ExplicitExit(f, opcode) ==
  IF opcode \in {"REVERT", "INVALID"}
  THEN [f EXCEPT !.error = opcode, !.success = "false"]
  ELSE IF opcode \in {"RETURN", "STOP"} /\ f.type # "ROOT" /\ f.success = "null"
  THEN [f EXCEPT !.success = "true"]
  ELSE f

InitOf(parsers, lengths) ==
  /\ parser \in parsers
  /\ nLogs \in lengths
  /\ structLogs = <<>>
  /\ frames = <<>>
  /\ frameStack = <<>>
  /\ stepToFrameId = <<>>
  /\ lastDepth = 0
  /\ callFrames = <<>>
  /\ trace = FALSE
  /\ findings = <<>>
  /\ lastId = 0
  /\ slitherData = [kind |-> "null"]
  /\ mythrilData = [kind |-> "null"]
  /\ merged = <<>>
  /\ vulnResult = <<>>
  /\ pc = "start"

InitWith(parsers) == InitOf(parsers, 0..MaxSteps)

Init == InitWith({"full"})

\* buildCallFrames, up to the loop: the empty trace returns at once.
BuildStart ==
  /\ pc = "start"
  /\ parser = "full"
  /\ IF nLogs = 0
     THEN /\ pc' = "built"
          /\ UNCHANGED <<frames, frameStack>>
     ELSE /\ pc' = "loop"
          /\ frames' = <<RootFrame>>
          /\ frameStack' = <<0>>
  /\ UNCHANGED <<parser, nLogs, structLogs, stepToFrameId, lastDepth, callFrames>>
  /\ UNCHANGED detectorVars
  /\ UNCHANGED mergerVars

\* One iteration of the loop of buildCallFrames on the builder's variables b
\* and the next structLog.  The exception of readMemory leaves the function
\* without a result.
Iteration(b, log) ==
  LET step == Len(b.stepToFrameId)
      opcode == log.op
      depth == log.depth
      cur == currentFrameId(b.frameStack)
      gasCost == hexToNumberOfGas(log.gasCost)
      f1 == IF gasCost > 0
            THEN [b.frames EXCEPT ![cur + 1].gasSpent = @ + gasCost]
            ELSE b.frames
      popped == IF depth < b.lastDepth
                THEN PopFrames(b.frameStack, f1, depth, step, log.op)
                ELSE [stack |-> b.frameStack, frames |-> f1]
      isEntry == opcode \in CallClassOps
      newId == Len(b.frames)
      f2 == IF isEntry
            THEN Append(AddChild(popped.frames, cur, newId),
                        NewFrame(newId, popped.frames[cur + 1], opcode, depth, step,
                                 log.stack, log.memory))
            ELSE popped.frames
      stk2 == IF isEntry THEN Append(popped.stack, newId) ELSE popped.stack
      f3 == [f2 EXCEPT ![cur + 1] = ExplicitExit(@, opcode)]
  IN IF isEntry /\ readMemoryThrows(InputSize(opcode, log.stack))
     THEN [frames |-> popped.frames, frameStack |-> popped.stack,
           stepToFrameId |-> RecordStep(b.stepToFrameId, b.frames[cur + 1]),
           lastDepth |-> b.lastDepth, thrown |-> TRUE]
     ELSE [frames |-> f3, frameStack |-> stk2,
           stepToFrameId |-> RecordStep(b.stepToFrameId, b.frames[cur + 1]),
           lastDepth |-> depth, thrown |-> FALSE]

\* The builder's variables.
Builder(fs, stk, map, last) ==
  [frames |-> fs, frameStack |-> stk, stepToFrameId |-> map, lastDepth |-> last,
   thrown |-> FALSE]

ProcessStep(log) ==
  /\ pc = "loop"
  /\ parser = "full"
  /\ Len(structLogs) < nLogs
  /\ LET b == Iteration(Builder(frames, frameStack, stepToFrameId, lastDepth), log)
     IN /\ structLogs' = Append(structLogs, log)
        /\ pc' = IF b.thrown THEN "thrown" ELSE pc
        /\ stepToFrameId' = b.stepToFrameId
        /\ frames' = b.frames
        /\ frameStack' = b.frameStack
        /\ lastDepth' = b.lastDepth
  /\ UNCHANGED <<parser, nLogs, callFrames>>
  /\ UNCHANGED detectorVars
  /\ UNCHANGED mergerVars

\* Force-close with endStep = structLogs.length, one past the last step.
RECURSIVE CloseAll_PastEnd(_, _, _)
CloseAll_PastEnd(stk, fs, n) ==
  IF Len(stk) > 1
  THEN LET fid == stk[Len(stk)]
       IN CloseAll_PastEnd(SubSeq(stk, 1, Len(stk) - 1),
                           [fs EXCEPT ![fid + 1].endStep = n,
                                      ![fid + 1].success = IF @ = "null" THEN "true" ELSE @],
                           n)
  ELSE [stack |-> stk, frames |-> fs]

\* Force-close that stamps every non-root frame with the last step, the
\* frames closed earlier included.
CloseAll_Every(stk, fs, n) ==
  [stack |-> <<stk[1]>>,
   frames |-> [i \in 1..Len(fs) |->
                 IF i = 1 THEN fs[i]
                 ELSE [fs[i] EXCEPT !.endStep = n - 1,
                                    !.success = IF @ = "null" THEN "true" ELSE @]]]

\* Force-close that sets endStep and leaves an unresolved status null.
RECURSIVE CloseAll_EndOnly(_, _, _)
CloseAll_EndOnly(stk, fs, n) ==
  IF Len(stk) > 1
  THEN LET fid == stk[Len(stk)]
       IN CloseAll_EndOnly(SubSeq(stk, 1, Len(stk) - 1),
                           [fs EXCEPT ![fid + 1].endStep = n - 1], n)
  ELSE [stack |-> stk, frames |-> fs]

\* After the loop: force-close what is still open, then the root's bounds and status.
RECURSIVE CloseAll(_, _, _)
CloseAll(stk, fs, n) ==
  IF Len(stk) > 1
  THEN LET fid == stk[Len(stk)]
       IN CloseAll(SubSeq(stk, 1, Len(stk) - 1),
                   [fs EXCEPT ![fid + 1].endStep = n - 1,
                              ![fid + 1].success = IF @ = "null" THEN "true" ELSE @],
                   n)
  ELSE [stack |-> stk, frames |-> fs]

\* The builder's variables after the loop: the open frames force-closed, the
\* root's bounds and status set from the last step.
Closing(b, logs) ==
  LET n == Len(logs)
      closed == CloseAll(b.frameStack, b.frames, n)
      lastOp == logs[n].op
      root == closed.frames[1]
      root2 == [root EXCEPT !.endStep = n - 1,
                            !.error = IF lastOp \in {"REVERT", "INVALID"} THEN lastOp ELSE @,
                            !.success = IF lastOp \in {"REVERT", "INVALID"} THEN "false"
                                        ELSE "true"]
  IN [b EXCEPT !.frames = [closed.frames EXCEPT ![1] = root2], !.frameStack = closed.stack]

CloseRemaining ==
  /\ pc = "loop"
  /\ parser = "full"
  /\ Len(structLogs) = nLogs
  /\ LET b == Closing(Builder(frames, frameStack, stepToFrameId, lastDepth), structLogs)
     IN /\ frames' = b.frames
        /\ frameStack' = b.frameStack
        /\ callFrames' = [i \in 1..Len(frames) |-> frames[i].id]
  /\ pc' = "built"
  /\ UNCHANGED <<parser, nLogs, structLogs, stepToFrameId, lastDepth>>
  /\ UNCHANGED detectorVars
  /\ UNCHANGED mergerVars

\* buildCallFrames on a whole non-empty trace: the loop, then the closing.
RECURSIVE Iterations(_, _, _)
Iterations(b, logs, k) ==
  IF k > Len(logs) \/ b.thrown THEN b
  ELSE Iterations(Iteration(b, logs[k]), logs, k + 1)

buildCallFrames(logs) ==
  LET b == Iterations(Builder(<<RootFrame>>, <<0>>, <<>>, 0), logs, 1)
  IN IF b.thrown THEN b ELSE Closing(b, logs)

\* validateFrames: the advisory issue list, in the order the checks run.
FrameIds(fs) == { fs[i].id : i \in 1..Len(fs) }

\* frames.find(f => f.id === id): the index of the first frame with that id, 0 if none.
FindFrame(fs, id) ==
  IF \E i \in 1..Len(fs) : fs[i].id = id
  THEN CHOOSE i \in 1..Len(fs) : fs[i].id = id /\ \A j \in 1..(i - 1) : fs[j].id # id
  ELSE 0

\* The listed children that are no frame id, in list order.
RECURSIVE BadChildren(_, _)
BadChildren(children, idSet) ==
  IF children = <<>> THEN <<>>
  ELSE (IF Head(children) \notin idSet THEN <<Head(children)>> ELSE <<>>)
       \o BadChildren(Tail(children), idSet)

FrameIssues(fs, frame) ==
  LET idSet == FrameIds(fs)
      parentIssue ==
        IF frame.parentId # NullId /\ frame.parentId \notin idSet
        THEN << [frame |-> frame.id, issue |-> "invalid parentId", ref |-> frame.parentId] >>
        ELSE <<>>
      bad == BadChildren(frame.children, idSet)
      childIssues ==
        [k \in 1..Len(bad) |-> [frame |-> frame.id, issue |-> "invalid child", ref |-> bad[k]]]
      p == IF frame.parentId # NullId THEN FindFrame(fs, frame.parentId) ELSE 0
      depthIssue ==
        IF p # 0 /\ frame.depth # fs[p].depth + 1
        THEN << [frame |-> frame.id, issue |-> "depth", ref |-> fs[p].depth] >>
        ELSE <<>>
      orderIssue ==
        IF frame.endStep < frame.startStep
        THEN << [frame |-> frame.id, issue |-> "endStep < startStep", ref |-> frame.endStep] >>
        ELSE <<>>
  IN parentIssue \o childIssues \o depthIssue \o orderIssue

RECURSIVE IssuesFrom(_, _)
IssuesFrom(fs, i) ==
  IF i > Len(fs) THEN <<>> ELSE FrameIssues(fs, fs[i]) \o IssuesFrom(fs, i + 1)

validateFrames(fs) ==
  LET issues == IssuesFrom(fs, 1)
  IN [valid |-> Len(issues) = 0, issues |-> issues]

(***************************************************************************)
(* parse_trace_local.cjs: callFrames / stepToFrameId built from the depth  *)
(* of the rows alone.  A frame is the scope that starts at a call          *)
(* instruction; only the frames opened with no frame open enter callFrames,*)
(* the others are nested in their parent's children.                       *)
(***************************************************************************)
ExternalCallOps == {"CALL", "DELEGATECALL", "STATICCALL", "CALLCODE"}

LocalFrame(fid, step, op, depth) ==
  [id |-> fid, step |-> step, op |-> op, depth |-> depth, type |-> op,
   children |-> <<>>, to |-> NullStr]

\* while (frameStack.length > 0 && top.depth >= row.depth) frameStack.pop()
RECURSIVE LocalPop(_, _, _)
LocalPop(stk, fs, depth) ==
  IF Len(stk) > 0 /\ fs[stk[Len(stk)] + 1].depth >= depth
  THEN LocalPop(SubSeq(stk, 1, Len(stk) - 1), fs, depth)
  ELSE stk

LocalStart ==
  /\ pc = "start"
  /\ parser = "local"
  /\ pc' = "loop"
  /\ UNCHANGED <<parser, nLogs, structLogs, frames, frameStack, stepToFrameId, lastDepth,
                 callFrames>>
  /\ UNCHANGED detectorVars
  /\ UNCHANGED mergerVars

LocalStep(log) ==
  /\ pc = "loop"
  /\ parser = "local"
  /\ Len(structLogs) < nLogs
  /\ LET step == Len(structLogs) + 1
         isCallOp == log.op \in ExternalCallOps
         newId == Len(frames)
         open == Len(frameStack) > 0
         top == frameStack[Len(frameStack)]
         fs2 == IF isCallOp
                THEN Append(IF open THEN AddChild(frames, top, newId) ELSE frames,
                            LocalFrame(newId, step, log.op, log.depth))
                ELSE frames
         stk2 == IF isCallOp THEN Append(frameStack, newId) ELSE frameStack
     IN /\ structLogs' = Append(structLogs, log)
        /\ frames' = fs2
        /\ callFrames' = IF isCallOp /\ ~open THEN Append(callFrames, newId) ELSE callFrames
        /\ stepToFrameId' = Append(stepToFrameId,
                                   IF isCallOp THEN newId
                                   ELSE IF open THEN top ELSE NullId)
        /\ frameStack' = IF log.op \in {"RETURN", "REVERT"}
                         THEN LocalPop(stk2, fs2, log.depth)
                         ELSE stk2
  /\ UNCHANGED <<parser, nLogs, lastDepth, pc>>
  /\ UNCHANGED detectorVars
  /\ UNCHANGED mergerVars

\* The output is written once every row is processed.
LocalFinish ==
  /\ pc = "loop"
  /\ parser = "local"
  /\ Len(structLogs) = nLogs
  /\ pc' = "built"
  /\ UNCHANGED <<parser, nLogs, structLogs, frames, frameStack, stepToFrameId, lastDepth,
                 callFrames>>
  /\ UNCHANGED detectorVars
  /\ UNCHANGED mergerVars

(***************************************************************************)
(* rows and sstores of parsed_trace.json, as both parsers derive them from *)
(* the structLogs (row.step is the index plus 1).                          *)
(***************************************************************************)
\* op.includes('CALL'), over the EVM mnemonics.
OpIncludesCALL(op) ==
  op \in {"CALL", "DELEGATECALL", "STATICCALL", "CALLCODE",
          "CALLER", "CALLVALUE", "CALLDATALOAD", "CALLDATASIZE", "CALLDATACOPY"}

Rows(logs) ==
  [i \in 1..Len(logs) |->
     [step |-> i, op |-> logs[i].op, depth |-> logs[i].depth,
      isCall |-> OpIncludesCALL(logs[i].op), isStorage |-> logs[i].op = "SSTORE"]]

RECURSIVE HexLen(_)
HexLen(v) == IF v = 0 THEN 0 ELSE 1 + HexLen(v \div 16)

SlotDigits == 64

\* parseTrace's normalizeSlot: without "0x", left-padded to 64 digits.
normalizeSlot(slot) ==
  IF slot = NullStr THEN Hex("", SlotDigits, 0)
  ELSE Hex("", Max(slot.len, SlotDigits), slot.val)

\* parse_trace_local's slot.replace(/^0+/, ''): the leading zeros go; of "0x..."
\* that is the one zero before the x.
StripLeadingZeros(slot) ==
  IF slot.pfx = "0x" THEN Hex("x", slot.len, slot.val)
  ELSE Hex("", HexLen(slot.val), slot.val)

\* JavaScript's stack[stack.length - k].
FromTop(stack, k) == stack[Len(stack) - k + 1]

RECURSIVE SstoresFrom(_, _, _)
SstoresFrom(logs, which, i) ==
  IF i > Len(logs) THEN <<>>
  ELSE (IF logs[i].op = "SSTORE" /\ Len(logs[i].stack) >= 2
        THEN << [step |-> i,
                 slot |-> IF which = "full" THEN normalizeSlot(FromTop(logs[i].stack, 1))
                          ELSE StripLeadingZeros(FromTop(logs[i].stack, 1)),
                 value |-> IF which = "full" THEN normalizeSlot(FromTop(logs[i].stack, 2))
                           ELSE FromTop(logs[i].stack, 2)] >>
        ELSE <<>>) \o SstoresFrom(logs, which, i + 1)

Sstores(logs, which) == SstoresFrom(logs, which, 1)

(***************************************************************************)
(* VulnDetector.  A detector reads d: the parsed data (rows, sstores,      *)
(* callFrames, stepToFrameId) and, when given, the structLogs of the trace *)
(* file.  Each rule yields its findings in emission order; addFinding      *)
(* numbers them.                                                           *)
(***************************************************************************)
DetectorInput(logs, which, fs, cf, map, traceGiven) ==
  [rows |-> Rows(logs), sstores |-> Sstores(logs, which),
   callFrames |-> [k \in 1..Len(cf) |-> fs[cf[k] + 1]],
   stepToFrameId |-> map, trace |-> traceGiven, logs |-> logs]

\* this.stepToFrameId[idx]; Undefined past the end of the array.
Undefined == 0 - 2
StepFrame(d, idx) ==
  IF idx >= 0 /\ idx < Len(d.stepToFrameId) THEN d.stepToFrameId[idx + 1] ELSE Undefined

\* this.trace.result.structLogs[i] exists.
HasLog(d, i) == d.trace /\ i >= 0 /\ i < Len(d.logs)
LogAt(d, i) == d.logs[i + 1]

PRECOMPILES == { Hex("0x", AddrDigits, v) : v \in 1..9 }

isPrecompile(addr) == addr # NullStr /\ addr \in PRECOMPILES

isSelfCall(addr, contractAddr) ==
  addr # NullStr /\ contractAddr # NullStr /\ addr = contractAddr

\* The target the reentrancy rule takes for the call of row idx: entry 5 of the
\* stack of structLogs[idx - 1].
CallTarget(d, idx) ==
  IF HasLog(d, idx - 1) /\ Len(LogAt(d, idx - 1).stack) > 5
  THEN At(LogAt(d, idx - 1).stack, 5)
  ELSE NullStr

RECURSIVE FrameCallsFrom(_, _, _)
FrameCallsFrom(d, frameId, idx) ==
  IF idx >= Len(d.rows) THEN <<>>
  ELSE (IF StepFrame(d, idx) # Undefined /\ StepFrame(d, idx) = frameId
           /\ d.rows[idx + 1].op \in ExternalCallOps
        THEN << [step |-> d.rows[idx + 1].step, op |-> d.rows[idx + 1].op,
                 to |-> CallTarget(d, idx)] >>
        ELSE <<>>) \o FrameCallsFrom(d, frameId, idx + 1)

\* frameCallsMap.get(frame.id) || []
FrameCalls(d, frameId) == FrameCallsFrom(d, frameId, 0)

\* this.sstores.find(s => s.step === step), as an index; 0 if none.
FindSstore(d, step) ==
  IF \E k \in 1..Len(d.sstores) : d.sstores[k].step = step
  THEN CHOOSE k \in 1..Len(d.sstores) :
         d.sstores[k].step = step /\ \A j \in 1..(k - 1) : d.sstores[j].step # step
  ELSE 0

RECURSIVE FrameStoresFrom(_, _, _)
FrameStoresFrom(d, frameId, idx) ==
  IF idx >= Len(d.rows) THEN <<>>
  ELSE (IF StepFrame(d, idx) # Undefined /\ StepFrame(d, idx) = frameId
           /\ d.rows[idx + 1].isStorage /\ d.rows[idx + 1].op = "SSTORE"
           /\ FindSstore(d, d.rows[idx + 1].step) # 0
        THEN << [step |-> d.rows[idx + 1].step,
                 slot |-> d.sstores[FindSstore(d, d.rows[idx + 1].step)].slot,
                 value |-> d.sstores[FindSstore(d, d.rows[idx + 1].step)].value] >>
        ELSE <<>>) \o FrameStoresFrom(d, frameId, idx + 1)

\* The recorded SSTOREs of the whole trace, whatever frame they ran in.
RECURSIVE AllStoresFrom(_, _)
AllStoresFrom(d, idx) ==
  IF idx >= Len(d.rows) THEN <<>>
  ELSE (IF d.rows[idx + 1].op = "SSTORE" /\ FindSstore(d, d.rows[idx + 1].step) # 0
        THEN << [step |-> d.rows[idx + 1].step,
                 slot |-> d.sstores[FindSstore(d, d.rows[idx + 1].step)].slot,
                 value |-> d.sstores[FindSstore(d, d.rows[idx + 1].step)].value] >>
        ELSE <<>>) \o AllStoresFrom(d, idx + 1)

FrameStores_AnyFrame(d, frameId) == AllStoresFrom(d, 0)

\* frameStoresMap.get(frame.id) || []
FrameStores(d, frameId) == FrameStoresFrom(d, frameId, 0)

RECURSIVE StoresAfter(_, _)
StoresAfter(stores, callStep) ==
  IF stores = <<>> THEN <<>>
  ELSE (IF Head(stores).step > callStep THEN <<Head(stores)>> ELSE <<>>)
       \o StoresAfter(Tail(stores), callStep)

isExternalCall(callInfo, frame) ==
  ~(isPrecompile(callInfo.to) \/ isSelfCall(callInfo.to, frame.to))

Steps(stores) == [k \in 1..Len(stores) |-> stores[k].step]

Finding(rule, severity, title, evidence, tags) ==
  [rule |-> rule, severity |-> severity, title |-> title, evidence |-> evidence,
   tags |-> tags]

\* hasNestedFrames || callInfo.op === 'DELEGATECALL'; R1Applies_NestedOnly forgets
\* the DELEGATECALL case.
R1Applies_NestedOnly(hasNestedFrames, op) == hasNestedFrames
R1Applies(hasNestedFrames, op) == hasNestedFrames \/ op = "DELEGATECALL"

\* Rule R1 for one call of one frame: an external call followed by same-frame
\* SSTOREs, in a frame with nested frames or by DELEGATECALL.
R1Call(d, frame, callInfo) ==
  LET storesAfterCall == StoresAfter(FrameStores(d, frame.id), callInfo.step)
      hasNestedFrames == Len(frame.children) > 0
  IN IF storesAfterCall = <<>> THEN <<>>
     ELSE IF ~isExternalCall(callInfo, frame) /\ callInfo.op # "DELEGATECALL" THEN <<>>
     ELSE IF R1Applies(hasNestedFrames, callInfo.op)
     THEN << Finding("ReentrancyHeuristicFrame", "high",
                     "Potential Reentrancy: External Call Before State Update (Frame-Aware)",
                     [frameId |-> frame.id, frameType |-> frame.type,
                      externalCall |-> callInfo, nestedFrames |-> frame.children,
                      sstores |-> storesAfterCall],
                     {"reentrancy", "frame-aware"}) >>
     ELSE <<>>

RECURSIVE R1Calls(_, _, _)
R1Calls(d, frame, calls) ==
  IF calls = <<>> THEN <<>>
  ELSE R1Call(d, frame, Head(calls)) \o R1Calls(d, frame, Tail(calls))

R1Frame(d, frame) ==
  IF FrameCalls(d, frame.id) = <<>> \/ FrameStores(d, frame.id) = <<>> THEN <<>>
  ELSE R1Calls(d, frame, FrameCalls(d, frame.id))

\* The keys of slotWriteCounts, in insertion order.
RECURSIVE SlotsInOrder(_, _)
SlotsInOrder(stores, seen) ==
  IF stores = <<>> THEN <<>>
  ELSE IF Head(stores).slot \in seen THEN SlotsInOrder(Tail(stores), seen)
  ELSE <<Head(stores).slot>> \o SlotsInOrder(Tail(stores), seen \cup {Head(stores).slot})

RECURSIVE StoresOfSlot(_, _)
StoresOfSlot(stores, slot) ==
  IF stores = <<>> THEN <<>>
  ELSE (IF Head(stores).slot = slot THEN <<Head(stores)>> ELSE <<>>)
       \o StoresOfSlot(Tail(stores), slot)

\* count > 1; WrittenTwice_Once reports a slot from its first write on.
WrittenTwice_Once(count) == count > 0
WrittenTwice(count) == count > 1

\* Rule R2 for one slot written after one call.
R2Slot(d, frame, callInfo, storesAfterCall, slot) ==
  LET slotsWithMultipleWrites == StoresOfSlot(storesAfterCall, slot)
      count == Len(slotsWithMultipleWrites)
  IN IF ~WrittenTwice(count) THEN <<>>
     ELSE IF ~isExternalCall(callInfo, frame) /\ callInfo.op # "DELEGATECALL" THEN <<>>
     ELSE << Finding("ReentrancyHeuristicFrame", "medium",
                     "Potential Reentrancy: Multiple State Updates After External Call",
                     [frameId |-> frame.id, frameType |-> frame.type,
                      externalCall |-> callInfo,
                      multipleWrites |-> [slot |-> slot, count |-> count,
                                          steps |-> Steps(slotsWithMultipleWrites)],
                      sstores |-> slotsWithMultipleWrites],
                     {"reentrancy", "frame-aware", "state-race"}) >>

RECURSIVE R2Slots(_, _, _, _, _)
R2Slots(d, frame, callInfo, storesAfterCall, slots) ==
  IF slots = <<>> THEN <<>>
  ELSE R2Slot(d, frame, callInfo, storesAfterCall, Head(slots))
       \o R2Slots(d, frame, callInfo, storesAfterCall, Tail(slots))

RECURSIVE R2Calls(_, _, _)
R2Calls(d, frame, calls) ==
  IF calls = <<>> THEN <<>>
  ELSE LET storesAfterCall == StoresAfter(FrameStores(d, frame.id), Head(calls).step)
       IN R2Slots(d, frame, Head(calls), storesAfterCall, SlotsInOrder(storesAfterCall, {}))
          \o R2Calls(d, frame, Tail(calls))

R2Frame(d, frame) ==
  IF FrameCalls(d, frame.id) = <<>> \/ Len(FrameStores(d, frame.id)) < 2 THEN <<>>
  ELSE R2Calls(d, frame, FrameCalls(d, frame.id))

RECURSIVE R1Frames(_, _)
R1Frames(d, k) ==
  IF k > Len(d.callFrames) THEN <<>> ELSE R1Frame(d, d.callFrames[k]) \o R1Frames(d, k + 1)

RECURSIVE R2Frames(_, _)
R2Frames(d, k) ==
  IF k > Len(d.callFrames) THEN <<>> ELSE R2Frame(d, d.callFrames[k]) \o R2Frames(d, k + 1)

\* detectReentrancyLegacy: the first call / SSTORE pair of the flat stream.
MAX_WINDOW_STEPS == 200

RECURSIVE CallDepthsFrom(_, _)
CallDepthsFrom(rows, idx) ==
  IF idx >= Len(rows) THEN <<>>
  ELSE (IF rows[idx + 1].isCall
        THEN << [step |-> idx, op |-> rows[idx + 1].op, depth |-> rows[idx + 1].depth] >>
        ELSE <<>>)
       \o (IF rows[idx + 1].isStorage
           THEN << [step |-> idx, op |-> "SSTORE", depth |-> rows[idx + 1].depth] >>
           ELSE <<>>)
       \o CallDepthsFrom(rows, idx + 1)

LegacyMatch(callDepths, i) ==
  /\ OpIncludesCALL(callDepths[i].op)
  /\ callDepths[i + 1].op = "SSTORE"
  /\ callDepths[i + 1].depth <= callDepths[i].depth
  /\ callDepths[i + 1].step - callDepths[i].step < MAX_WINDOW_STEPS

detectReentrancyLegacy(d) ==
  LET callDepths == CallDepthsFrom(d.rows, 0)
      matches == { i \in 1..(Len(callDepths) - 1) : LegacyMatch(callDepths, i) }
      first == CHOOSE i \in matches : \A j \in matches : i <= j
  IN IF Len(callDepths) < 2 \/ matches = {} THEN <<>>
     ELSE << Finding("reentrancy", "high",
                     "Potential Reentrancy: External Call Before State Update (legacy)",
                     [pattern |-> "state_update_after_external_call (legacy)",
                      call_step |-> callDepths[first].step,
                      call_op |-> callDepths[first].op,
                      call_depth |-> callDepths[first].depth,
                      sstore_step |-> callDepths[first + 1].step,
                      sstore_depth |-> callDepths[first + 1].depth,
                      steps_between |-> callDepths[first + 1].step - callDepths[first].step],
                     {"reentrancy", "legacy"}) >>

\* detectReentrancyFrameAware: legacy without frame data, else R1 over every
\* frame, then R2 over every frame.  detectReentrancyFrameAware_Both runs the
\* legacy detector in either case.
detectReentrancyFrameAware_Both(d) ==
  detectReentrancyLegacy(d)
  \o (IF Len(d.callFrames) = 0 \/ Len(d.stepToFrameId) = 0 THEN <<>>
      ELSE R1Frames(d, 1) \o R2Frames(d, 1))
detectReentrancyFrameAware(d) ==
  IF Len(d.callFrames) = 0 \/ Len(d.stepToFrameId) = 0
  THEN detectReentrancyLegacy(d)
  ELSE R1Frames(d, 1) \o R2Frames(d, 1)

(***************************************************************************)
(* detectUncheckedCalls: a call with no ISZERO / REVERT / JUMPI / REQUIRE  *)
(* in the rows idx + 1 .. min(idx + 20, rows.length) - 1.                  *)
(***************************************************************************)
CHECK_WINDOW == 20

FoundCheck(d, idx) ==
  \E i \in (idx + 1)..(Min(idx + CHECK_WINDOW, Len(d.rows)) - 1) :
    d.rows[i + 1].op \in {"ISZERO", "REVERT", "JUMPI", "REQUIRE"}

RECURSIVE UncheckedFrom(_, _)
UncheckedFrom(d, idx) ==
  IF idx >= Len(d.rows) THEN <<>>
  ELSE (IF d.rows[idx + 1].op \in ExternalCallOps /\ ~FoundCheck(d, idx)
        THEN << Finding("unchecked_call", "medium", "Unchecked External Call",
                        [call_step |-> d.rows[idx + 1].step, call_op |-> d.rows[idx + 1].op,
                         checked_within_steps |-> CHECK_WINDOW, found_check |-> FALSE],
                        {"unchecked-call"}) >>
        ELSE <<>>) \o UncheckedFrom(d, idx + 1)

detectUncheckedCalls(d) == UncheckedFrom(d, 0)

(***************************************************************************)
(* detectAccessControl: every ORIGIN, then every DELEGATECALL.             *)
(***************************************************************************)
\* The last 40 digits behind "0x"; null for a value of fewer than 40 digits.
\* (Values are below 16^40, so slicing keeps val.)
extractAddressFromStack(stackValue) ==
  IF stackValue = NullStr \/ stackValue.len = 0 THEN NullStr
  ELSE IF stackValue.len < AddrDigits THEN NullStr
  ELSE Hex("0x", AddrDigits, stackValue.val)

CONTROL_WINDOW == 50
PUSH20_WINDOW == 10
NEARBY_LIMIT == 3

\* findNearbyControl: the same-frame JUMPI / REVERT / REQUIRE rows of
\* originStep + 1 .. min(originStep + maxSteps, rows.length) - 1, at most 3.
RECURSIVE NearbyFrom(_, _, _, _, _)
NearbyFrom(d, i, checkThrough, frameId, found) ==
  IF i >= checkThrough \/ found >= NEARBY_LIMIT THEN <<>>
  ELSE IF StepFrame(d, i) = frameId /\ d.rows[i + 1].op \in {"JUMPI", "REVERT", "REQUIRE"}
  THEN << [step |-> d.rows[i + 1].step, op |-> d.rows[i + 1].op] >>
       \o NearbyFrom(d, i + 1, checkThrough, frameId, found + 1)
  ELSE NearbyFrom(d, i + 1, checkThrough, frameId, found)

findNearbyControl(d, originStep, frameId, maxSteps) ==
  NearbyFrom(d, originStep + 1, Min(originStep + maxSteps, Len(d.rows)), frameId, 0)

\* nearbyOps.slice(0, 2)
FirstTwo(seq) == SubSeq(seq, 1, Min(2, Len(seq)))

RECURSIVE OriginFrom(_, _)
OriginFrom(d, idx) ==
  IF idx >= Len(d.rows) THEN <<>>
  ELSE (IF d.rows[idx + 1].op = "ORIGIN"
        THEN LET step == d.rows[idx + 1].step
                 frameId == StepFrame(d, step - 1)
                 nearbyOps == findNearbyControl(d, step - 1, frameId, CONTROL_WINDOW)
             IN << Finding("TxOriginAuthHeuristic",
                           IF Len(nearbyOps) > 0 THEN "medium" ELSE "low",
                           "Use of tx.origin in Access Control Logic",
                           [step |-> step, frameId |-> frameId,
                            nearbyControls |-> FirstTwo(nearbyOps)],
                           {"access-control", "tx-origin"}) >>
        ELSE <<>>) \o OriginFrom(d, idx + 1)

\* extractDelegatecallTarget: the fifth entry from the top of the stack of
\* structLogs[rowIndex - 1].
extractDelegatecallTarget(d, rowIndex) ==
  IF ~HasLog(d, rowIndex - 1) \/ Len(LogAt(d, rowIndex - 1).stack) < 6 THEN NullStr
  ELSE extractAddressFromStack(FromTop(LogAt(d, rowIndex - 1).stack, 5))

\* checkPUSH20Preceding: a same-frame PUSH20 row i in the maxSteps rows before
\* startStep whose structLogs[i - 1] has the target on top of its stack.
checkPUSH20Preceding(d, targetAddr, startStep, frameId, maxSteps) ==
  /\ targetAddr # NullStr
  /\ \E i \in Max(0, startStep - maxSteps)..(startStep - 1) :
       /\ i < Len(d.rows)
       /\ StepFrame(d, i) = frameId
       /\ d.rows[i + 1].op = "PUSH20"
       /\ HasLog(d, i - 1)
       /\ Len(LogAt(d, i - 1).stack) > 0
       /\ extractAddressFromStack(FromTop(LogAt(d, i - 1).stack, 1)) # NullStr
       /\ extractAddressFromStack(FromTop(LogAt(d, i - 1).stack, 1)) = targetAddr

RECURSIVE DelegatecallFrom(_, _)
DelegatecallFrom(d, idx) ==
  IF idx >= Len(d.rows) THEN <<>>
  ELSE (IF d.rows[idx + 1].op = "DELEGATECALL"
        THEN LET step == d.rows[idx + 1].step
                 frameId == StepFrame(d, step - 1)
                 targetAddr == extractDelegatecallTarget(d, step - 1)
                 isConstTarget ==
                   checkPUSH20Preceding(d, targetAddr, step - 1, frameId, PUSH20_WINDOW)
             IN << Finding("DelegatecallTargetHeuristic",
                           IF isConstTarget THEN "medium" ELSE "high",
                           "Risky DELEGATECALL: Execution Control Risk",
                           [step |-> step, frameId |-> frameId, targetAddress |-> targetAddr,
                            targetIsConstant |-> isConstTarget],
                           {"delegatecall", "execution-control"}) >>
        ELSE <<>>) \o DelegatecallFrom(d, idx + 1)

detectAccessControl(d) ==
  IF Len(d.rows) = 0 THEN <<>> ELSE OriginFrom(d, 0) \o DelegatecallFrom(d, 0)

(***************************************************************************)
(* detectOverflow: the Panic(0x11) rule on every REVERT row, then the      *)
(* fallback heuristic on every arithmetic row.                             *)
(***************************************************************************)
MAX_REVERT_SIZE == 200
LOOKBACK == 30
FALLBACK_WINDOW == 5
PANIC_SELECTOR == <<78, 72, 123, 113>>
PANIC_ARITHMETIC == <<17>>
ArithmeticOps == {"ADD", "SUB", "MUL", "DIV"}

\* parseInt(hex, 16) of a stack entry; NaN (no comparison holds of it) for "".
NaN == 0 - 1
parseInt16(hex) == IF hex = NullStr \/ hex.len = 0 THEN NaN ELSE hex.val

\* extractMemoryRange: the bytes of [memOffset, memOffset + memSize) that the
\* memory holds (no padding); null for no memory, size 0 or an empty result.
extractMemoryRange(memOffset, memSize, memoryWords) ==
  IF memoryWords = <<>> \/ memSize = 0 THEN NullBytes
  ELSE LET memoryBytes == Flatten(memoryWords)
           last == Min(memOffset + memSize, Len(memoryBytes))
           result == IF memOffset + 1 > last THEN <<>>
                     ELSE SubSeq(memoryBytes, memOffset + 1, last)
       IN IF Len(result) > 0 THEN result ELSE NullBytes

\* A 256-bit number as the bytes of its value, without the leading zero bytes.
RECURSIVE StripZeroBytes(_)
StripZeroBytes(bytes) ==
  IF bytes # <<>> /\ Head(bytes) = 0 THEN StripZeroBytes(Tail(bytes)) ELSE bytes

NoPanic == [selector |-> NullBytes, code |-> NullBytes]

\* decodePanicRevert: selector and code of Panic(uint256) revert data, else null.
decodePanicRevert(revertData) ==
  IF revertData = NullBytes \/ 2 + 2 * Len(revertData) < 10 THEN NoPanic
  ELSE IF SubSeq(revertData, 1, SelectorBytes) # PANIC_SELECTOR THEN NoPanic
  ELSE IF 2 + 2 * Len(revertData) < 10 + 2 * WordBytes THEN NoPanic
  ELSE [selector |-> SubSeq(revertData, 1, SelectorBytes),
        code |-> StripZeroBytes(SubSeq(revertData, SelectorBytes + 1,
                                       SelectorBytes + WordBytes))]

\* size > 0 && size <= 200
SizeInBounds(size) == size > 0 /\ size <= MAX_REVERT_SIZE

\* The panic decoded from the memory of the REVERT at row step (structLogs[step - 1]).
PanicInfo(d, step) ==
  IF ~HasLog(d, step - 1) \/ Len(LogAt(d, step - 1).stack) < 2 THEN NoPanic
  ELSE LET structLog == LogAt(d, step - 1)
           offset == parseInt16(FromTop(structLog.stack, 1))
           size == parseInt16(FromTop(structLog.stack, 2))
           revertData == extractMemoryRange(offset, size, structLog.memory)
       IN IF offset >= 0 /\ SizeInBounds(size) /\ revertData # NullBytes
          THEN decodePanicRevert(revertData)
          ELSE NoPanic

\* panicInfo && panicInfo.code === 0x11; IsArithmeticPanic_AnyCode takes any panic.
IsArithmeticPanic_AnyCode(panicInfo) == panicInfo # NoPanic
IsArithmeticPanic(panicInfo) == panicInfo # NoPanic /\ panicInfo.code = PANIC_ARITHMETIC

\* findPrecedingArithmetic: the same-frame ADD / SUB / MUL / DIV rows of the
\* lookBack rows before revertStep.
RECURSIVE ArithmeticFrom(_, _, _, _)
ArithmeticFrom(d, i, revertStep, frameId) ==
  IF i >= revertStep THEN <<>>
  ELSE (IF i < Len(d.rows) /\ StepFrame(d, i) = frameId /\ d.rows[i + 1].op \in ArithmeticOps
        THEN << [step |-> d.rows[i + 1].step, op |-> d.rows[i + 1].op] >>
        ELSE <<>>) \o ArithmeticFrom(d, i + 1, revertStep, frameId)

findPrecedingArithmetic(d, revertStep, frameId, lookBack) ==
  ArithmeticFrom(d, Max(0, revertStep - lookBack), revertStep, frameId)

RECURSIVE PanicFrom(_, _)
PanicFrom(d, idx) ==
  IF idx >= Len(d.rows) THEN <<>>
  ELSE LET step == d.rows[idx + 1].step
           panicInfo == PanicInfo(d, step)
           frameId == StepFrame(d, step - 1)
           precedingOps == findPrecedingArithmetic(d, step - 1, frameId, LOOKBACK)
       IN (IF d.rows[idx + 1].op = "REVERT" /\ IsArithmeticPanic(panicInfo)
           THEN << Finding("ArithmeticOverflowUnderflow", "high",
                           "Arithmetic Overflow/Underflow Panic Detected",
                           [revert_step |-> step,
                            panic_selector |-> panicInfo.selector,
                            panic_code |-> panicInfo.code,
                            frameId |-> frameId,
                            preceding_arithmetic_ops |->
                              SubSeq(precedingOps, 1, Min(5, Len(precedingOps)))],
                           {"dynamic", "overflow", "panic-detected"}) >>
           ELSE <<>>) \o PanicFrom(d, idx + 1)

\* The fallback: the first INVALID / REVERT among the rows
\* idx + 1 .. min(idx + 5, rows.length) - 1 after an arithmetic row.
FailuresAfter(d, idx) ==
  { i \in (idx + 1)..(Min(idx + FALLBACK_WINDOW, Len(d.rows)) - 1) :
      d.rows[i + 1].op \in {"INVALID", "REVERT"} }

RECURSIVE HeuristicFrom(_, _)
HeuristicFrom(d, idx) ==
  IF idx >= Len(d.rows) THEN <<>>
  ELSE (IF d.rows[idx + 1].op \in ArithmeticOps /\ FailuresAfter(d, idx) # {}
        THEN LET i == CHOOSE i \in FailuresAfter(d, idx) :
                        \A j \in FailuresAfter(d, idx) : i <= j
             IN << Finding("ArithmeticOverflowUnderflow", "medium",
                           "Possible Overflow/Underflow (Heuristic)",
                           [arithmetic_step |-> d.rows[idx + 1].step,
                            arithmetic_op |-> d.rows[idx + 1].op,
                            failure_step |-> d.rows[i + 1].step,
                            failure_op |-> d.rows[i + 1].op,
                            steps_between |-> d.rows[i + 1].step - d.rows[idx + 1].step],
                           {"dynamic", "overflow", "heuristic"}) >>
        ELSE <<>>) \o HeuristicFrom(d, idx + 1)

detectOverflow(d) ==
  IF Len(d.rows) = 0 THEN <<>> ELSE PanicFrom(d, 0) \o HeuristicFrom(d, 0)

(***************************************************************************)
(* integrateStaticAnalysis: the arithmetic results of slither.json and     *)
(* mythril.json of the working directory, when the files exist.  A free    *)
(* text (check name, title) is the sequence of its characters.             *)
(***************************************************************************)
\* String.prototype.includes
Includes(text, kw) ==
  \E i \in 1..(Len(text) - Len(kw) + 1) : SubSeq(text, i, i + Len(kw) - 1) = kw

KwArithmetic == <<"a", "r", "i", "t", "h", "m", "e", "t", "i", "c">>
KwOverflow == <<"o", "v", "e", "r", "f", "l", "o", "w">>
KwUnderflow == <<"u", "n", "d", "e", "r", "f", "l", "o", "w">>

IsArithmeticText(text) ==
  Len(text) > 0 /\ (Includes(text, KwArithmetic) \/ Includes(text, KwOverflow)
                    \/ Includes(text, KwUnderflow))

mapSlitherSeverity(impact) ==
  CASE impact = "high" -> "high"
    [] impact = "medium" -> "medium"
    [] impact = "low" -> "low"
    [] impact = "informational" -> "low"
    [] OTHER -> "medium"

mapMythrilSeverity(severity) ==
  CASE severity = "High" -> "high"
    [] severity = "Medium" -> "medium"
    [] severity = "Low" -> "low"
    [] severity = "Informational" -> "low"
    [] OTHER -> "medium"

\* fs.existsSync(...) is false.
NoFile == [present |-> FALSE, results |-> <<>>]

RECURSIVE SlitherFrom(_)
SlitherFrom(results) ==
  IF results = <<>> THEN <<>>
  ELSE (IF IsArithmeticText(Head(results).check)
        THEN << Finding("ArithmeticOverflowUnderflow", mapSlitherSeverity(Head(results).impact),
                        "Slither",
                        [source |-> "Slither", check |-> Head(results).check,
                         impact |-> Head(results).impact],
                        {"static", "overflow", "slither"}) >>
        ELSE <<>>) \o SlitherFrom(Tail(results))

RECURSIVE MythrilFrom(_)
MythrilFrom(issues) ==
  IF issues = <<>> THEN <<>>
  ELSE (IF IsArithmeticText(Head(issues).title)
        THEN << Finding("ArithmeticOverflowUnderflow", mapMythrilSeverity(Head(issues).severity),
                        "Mythril",
                        [source |-> "Mythril", title |-> Head(issues).title,
                         severity |-> Head(issues).severity],
                        {"static", "overflow", "mythril"}) >>
        ELSE <<>>) \o MythrilFrom(Tail(issues))

integrateStaticAnalysis(slither, mythril) ==
  (IF slither.present THEN SlitherFrom(slither.results) ELSE <<>>)
  \o (IF mythril.present THEN MythrilFrom(mythril.results) ELSE <<>>)

\* analyze(): the detectors in their fixed order.
analyze(d, slither, mythril) ==
  detectReentrancyFrameAware(d) \o detectUncheckedCalls(d) \o detectAccessControl(d)
  \o detectOverflow(d) \o integrateStaticAnalysis(slither, mythril)

\* addFinding: the id is the running counter (VUL-0001 is 1).
\* getRecommendation: the text of the rule's entry in recs, else the generic text.
getRecommendation(rule) ==
  CASE rule \in {"ReentrancyHeuristicFrame", "reentrancy"} ->
         "Use checks-effects-interactions pattern. Emit events before external calls. Consider reentrancy guards (OpenZeppelin)."
    [] rule = "unchecked_call" ->
         "Always check return value of external calls. Use require() or handle failure cases explicitly."
    [] rule = "TxOriginAuthHeuristic" ->
         "Never use tx.origin for access control. Use msg.sender instead. If tx.origin is necessary, validate against authenticated context."
    [] rule = "DelegatecallTargetHeuristic" ->
         "Avoid delegatecall if possible. If necessary, ensure target address is a constant that is whitelisted and audited. Use access control patterns to restrict who can call delegatecall functions."
    [] rule = "ArithmeticOverflowUnderflow" ->
         "Upgrade to Solidity >=0.8 for built-in overflow checks. For earlier versions, use SafeMath library. Ensure all arithmetic operations are properly bounded and validated."
    [] rule = "tx_origin" ->
         "Never use tx.origin for access control. Use msg.sender instead."
    [] rule = "delegatecall" ->
         "Avoid delegatecall or ensure target is whitelisted and safe. Document the intended behavior."
    [] rule \in {"overflow", "underflow"} ->
         "Upgrade to Solidity >=0.8 for built-in overflow checks. Or use SafeMath library."
    [] OTHER -> "Review this vulnerability and apply appropriate mitigations."

addFinding(list, counter) ==
  [k \in 1..Len(list) |->
     [id |-> counter + k, rule |-> list[k].rule, severity |-> list[k].severity,
      title |-> list[k].title, evidence |-> list[k].evidence,
      recommendation |-> getRecommendation(list[k].rule), tags |-> list[k].tags]]

\* main of vuln_detect.js on the parsed trace: traceGiven says whether --trace
\* named a file that holds result.structLogs (the structLogs the parser read).
\* constructor: this.id = 0 in every new detector.  NewDetectorId_Shared goes
\* on from the count of the detector before.
NewDetectorId_Shared(previous) == previous
NewDetectorId(previous) == 0

\* One run of vuln_detect.js on the parsed data: a new VulnDetector, analyze,
\* findings.json.
DetectorRun(traceGiven, slither, mythril) ==
  /\ LET d == DetectorInput(structLogs, parser, frames, callFrames, stepToFrameId, traceGiven)
         found == analyze(d, slither, mythril)
         first == NewDetectorId(lastId)
     IN /\ findings' = addFinding(found, first)
        /\ lastId' = first + Len(found)
  /\ trace' = traceGiven
  /\ pc' = "done"
  /\ UNCHANGED <<parser, nLogs, structLogs, frames, frameStack, stepToFrameId, lastDepth,
                 callFrames>>
  /\ UNCHANGED mergerVars

Detect(traceGiven, slither, mythril) ==
  /\ pc = "built"
  /\ DetectorRun(traceGiven, slither, mythril)

\* A second run of vuln_detect.js on the same parsed data.
DetectAgain(traceGiven, slither, mythril) ==
  /\ pc = "done"
  /\ DetectorRun(traceGiven, slither, mythril)

(***************************************************************************)
(* merge_findings.js.  A parsed analyzer output is null, an array, an       *)
(* object with a results (issues) property, or another value.  A text is   *)
(* the sequence of its characters; a string literal of the source that is  *)
(* only compared as a whole (a rule name, a tag, a detector's title) is a  *)
(* text of one element, Literal.  A missing property that the code tests   *)
(* for truth is the empty text.                                            *)
(***************************************************************************)
Null == [kind |-> "null"]
Absent == [kind |-> "undefined"]
NotAList == [kind |-> "string"]
ArrayOf(items) == [kind |-> "array", items |-> items]
ObjectWith(results) == [kind |-> "object", results |-> results]
NullEntry == [kind |-> "null"]
SlitherResult(check, impact) == [kind |-> "object", check |-> check, impact |-> impact]
MythrilIssue(title, severity) == [kind |-> "object", title |-> title, severity |-> severity]

Literal(s) == <<s>>

Letters ==
  [upper |-> <<"A", "B", "C", "D", "E", "F", "G", "H", "I", "J", "K", "L", "M", "N", "O",
               "P", "Q", "R", "S", "T", "U", "V", "W", "X", "Y", "Z">>,
   lower |-> <<"a", "b", "c", "d", "e", "f", "g", "h", "i", "j", "k", "l", "m", "n", "o",
               "p", "q", "r", "s", "t", "u", "v", "w", "x", "y", "z">>]

\* String.prototype.toLowerCase
LowerCaseOf ==
  [c \in { Letters.upper[k] : k \in 1..Len(Letters.upper) } |->
     Letters.lower[CHOOSE k \in 1..Len(Letters.upper) : Letters.upper[k] = c]]

toLowerCase(text) ==
  [i \in 1..Len(text) |->
     IF text[i] \in DOMAIN LowerCaseOf THEN LowerCaseOf[text[i]] ELSE text[i]]

\* The keywords the check names and titles are searched for.
Keyword ==
  [reentrancy |-> <<"r", "e", "e", "n", "t", "r", "a", "n", "c", "y">>,
   delegatecall |-> <<"d", "e", "l", "e", "g", "a", "t", "e", "c", "a", "l", "l">>,
   txOriginDash |-> <<"t", "x", "-", "o", "r", "i", "g", "i", "n">>,
   txOriginDot |-> <<"t", "x", ".", "o", "r", "i", "g", "i", "n">>,
   txOriginUnderscore |-> <<"t", "x", "_", "o", "r", "i", "g", "i", "n">>,
   uncheckedCall |-> <<"u", "n", "c", "h", "e", "c", "k", "e", "d", "-", "c", "a", "l", "l">>,
   uncheckedSend |-> <<"u", "n", "c", "h", "e", "c", "k", "e", "d", "-", "s", "e", "n", "d">>,
   accessControl |-> <<"a", "c", "c", "e", "s", "s", "-", "c", "o", "n", "t", "r", "o", "l">>,
   permission |-> <<"p", "e", "r", "m", "i", "s", "s", "i", "o", "n">>,
   call |-> <<"c", "a", "l", "l">>,
   return |-> <<"r", "e", "t", "u", "r", "n">>,
   access |-> <<"a", "c", "c", "e", "s", "s">>]

mapSlitherCheckToRule(check) ==
  LET checkLower == toLowerCase(check)
  IN CASE Includes(checkLower, Keyword.reentrancy) -> Literal("ReentrancyHeuristicFrame")
       [] Includes(checkLower, KwArithmetic) \/ Includes(checkLower, KwOverflow)
          \/ Includes(checkLower, KwUnderflow) -> Literal("ArithmeticOverflowUnderflow")
       [] Includes(checkLower, Keyword.delegatecall) -> Literal("DelegatecallTargetHeuristic")
       [] Includes(checkLower, Keyword.txOriginDash) \/ Includes(checkLower, Keyword.txOriginDot)
          -> Literal("TxOriginAuthHeuristic")
       [] Includes(checkLower, Keyword.uncheckedCall) \/ Includes(checkLower, Keyword.uncheckedSend)
          -> Literal("UncheckedExternalCall")
       [] Includes(checkLower, Keyword.accessControl) \/ Includes(checkLower, Keyword.permission)
          -> Literal("AccessControlIssue")
       [] OTHER -> check

mapMythrilTitleToRule(title) ==
  LET titleLower == toLowerCase(title)
  IN CASE Includes(titleLower, Keyword.reentrancy) -> Literal("ReentrancyHeuristicFrame")
       [] Includes(titleLower, KwArithmetic) \/ Includes(titleLower, KwOverflow)
          \/ Includes(titleLower, KwUnderflow) -> Literal("ArithmeticOverflowUnderflow")
       [] Includes(titleLower, Keyword.delegatecall) -> Literal("DelegatecallTargetHeuristic")
       [] Includes(titleLower, Keyword.txOriginDash) \/ Includes(titleLower, Keyword.txOriginDot)
          \/ Includes(titleLower, Keyword.txOriginUnderscore) -> Literal("TxOriginAuthHeuristic")
       [] Includes(titleLower, Keyword.call) \/ Includes(titleLower, Keyword.return)
          -> Literal("UncheckedExternalCall")
       [] Includes(titleLower, Keyword.access) \/ Includes(titleLower, Keyword.permission)
          -> Literal("AccessControlIssue")
       [] OTHER -> title

\* The keys of the severity maps: Slither's in lower case, Mythril's capitalised.
SlitherLevel ==
  [high |-> <<"h", "i", "g", "h">>,
   medium |-> <<"m", "e", "d", "i", "u", "m">>,
   low |-> <<"l", "o", "w">>,
   informational |-> <<"i", "n", "f", "o", "r", "m", "a", "t", "i", "o", "n", "a", "l">>,
   optimization |-> <<"o", "p", "t", "i", "m", "i", "z", "a", "t", "i", "o", "n">>]
MythrilLevel ==
  [high |-> <<"H", "i", "g", "h">>,
   medium |-> <<"M", "e", "d", "i", "u", "m">>,
   low |-> <<"L", "o", "w">>,
   informational |-> <<"I", "n", "f", "o", "r", "m", "a", "t", "i", "o", "n", "a", "l">>]

\* merge_findings.js: severityMap[(impact || '').toLowerCase()] || 'medium'
mergeMapSlitherSeverity(impact) ==
  LET word == toLowerCase(impact)
  IN CASE word = SlitherLevel.high -> "high"
       [] word = SlitherLevel.medium -> "medium"
       [] word = SlitherLevel.low -> "low"
       [] word = SlitherLevel.informational -> "low"
       [] word = SlitherLevel.optimization -> "low"
       [] OTHER -> "medium"

\* merge_findings.js: severityMap[severity] || 'medium'
mergeMapMythrilSeverity(severity) ==
  CASE severity = MythrilLevel.high -> "high"
    [] severity = MythrilLevel.medium -> "medium"
    [] severity = MythrilLevel.low -> "low"
    [] severity = MythrilLevel.informational -> "low"
    [] OTHER -> "medium"

\* slitherData.results || (Array.isArray(slitherData) ? slitherData : []), and
\* nothing unless that is an array.
ResultsOf(data) ==
  CASE data.kind = "array" -> data.items
    [] data.kind = "object" ->
         IF data.results.kind = "array" THEN data.results.items ELSE <<>>
    [] OTHER -> <<>>

StaticId(source, idx) == [source |-> source, n |-> idx]

\* getSlitherRecommendation and getMythrilRecommendation: the first keyword
\* the lower-cased check name (title) includes selects the text.
getSlitherRecommendation(check) ==
  LET checkLower == toLowerCase(check)
  IN IF Includes(checkLower, Keyword.reentrancy)
     THEN "Use checks-effects-interactions pattern. Consider reentrancy guards (OpenZeppelin)."
     ELSE IF Includes(checkLower, KwArithmetic)
     THEN "Upgrade to Solidity >=0.8 for built-in overflow checks. Use SafeMath for earlier versions."
     ELSE IF Includes(checkLower, Keyword.delegatecall)
     THEN "Ensure delegatecall target is whitelisted and audited. Avoid dynamic targets."
     ELSE IF Includes(checkLower, Keyword.txOriginDash)
     THEN "Never use tx.origin for access control. Use msg.sender instead."
     ELSE "Review and apply appropriate mitigation measures."

getMythrilRecommendation(title) ==
  LET titleLower == toLowerCase(title)
  IN IF Includes(titleLower, Keyword.reentrancy)
     THEN "Use checks-effects-interactions pattern. Consider reentrancy guards (OpenZeppelin)."
     ELSE IF Includes(titleLower, KwArithmetic)
     THEN "Upgrade to Solidity >=0.8 for built-in overflow checks. Use SafeMath for earlier versions."
     ELSE IF Includes(titleLower, Keyword.delegatecall)
     THEN "Ensure delegatecall target is whitelisted and audited. Avoid dynamic targets."
     ELSE IF Includes(titleLower, Keyword.txOriginDash)
     THEN "Never use tx.origin for access control. Use msg.sender instead."
     ELSE "Review and apply appropriate mitigation measures."

SlitherFinding(result, idx) ==
  LET ruleMap == mapSlitherCheckToRule(result.check)
  IN [id |-> StaticId("STATIC-SLITHER", idx),
      rule |-> ruleMap,
      severity |-> mergeMapSlitherSeverity(result.impact),
      title |-> result.check,
      evidence |-> [array |-> FALSE,
                    items |-> << [source |-> "Slither", check |-> result.check,
                                  impact |-> result.impact] >>],
      recommendation |-> getSlitherRecommendation(result.check),
      tags |-> {Literal("static"), Literal("slither"), ruleMap}]

MythrilFinding(issue, idx) ==
  LET ruleMap == mapMythrilTitleToRule(issue.title)
  IN [id |-> StaticId("STATIC-MYTHRIL", idx),
      rule |-> ruleMap,
      severity |-> mergeMapMythrilSeverity(issue.severity),
      title |-> issue.title,
      evidence |-> [array |-> FALSE,
                    items |-> << [source |-> "Mythril", title |-> issue.title,
                                  severity |-> issue.severity] >>],
      recommendation |-> getMythrilRecommendation(issue.title),
      tags |-> {Literal("static"), Literal("mythril"), ruleMap}]

\* !result || !result.check; HasNoCheck_NullOnly passes over the null entry only.
HasNoCheck_NullOnly(result) == result.kind = "null"
HasNoCheck(result) == result.kind = "null" \/ result.check = <<>>

\* !issue || !issue.title
HasNoTitle(issue) == issue.kind = "null" \/ issue.title = <<>>

\* results.forEach((result, idx) => ...): an entry that is null or has no check
\* is passed over; idx counts every entry.
RECURSIVE SlitherFindingsFrom(_, _)
SlitherFindingsFrom(results, idx) ==
  IF idx > Len(results) THEN <<>>
  ELSE (IF HasNoCheck(results[idx])
        THEN <<>>
        ELSE << SlitherFinding(results[idx], idx) >>)
       \o SlitherFindingsFrom(results, idx + 1)

normalizeSlitherFindings(data) == SlitherFindingsFrom(ResultsOf(data), 1)

RECURSIVE MythrilFindingsFrom(_, _)
MythrilFindingsFrom(issues, idx) ==
  IF idx > Len(issues) THEN <<>>
  ELSE (IF HasNoTitle(issues[idx])
        THEN <<>>
        ELSE << MythrilFinding(issues[idx], idx) >>)
       \o MythrilFindingsFrom(issues, idx + 1)

normalizeMythrilFindings(data) == MythrilFindingsFrom(ResultsOf(data), 1)

\* The context of a finding: "frame:<id>", "contract:<c>" and "function:<f>"
\* put one after the other, each for the field the evidence has, and the rule
\* when none of them is there.  An evidence that is an array has no such field.
EvidenceField(finding, field, absent) ==
  IF finding.evidence.array THEN absent
  ELSE LET evidence == finding.evidence.items[1]
       IN IF field \in DOMAIN evidence THEN evidence[field] ELSE absent

extractFindingContext(finding) ==
  LET frameId == EvidenceField(finding, "frameId", Undefined)
      contract == EvidenceField(finding, "contract", <<>>)
      function == EvidenceField(finding, "function", <<>>)
      empty == frameId = Undefined /\ contract = <<>> /\ function = <<>>
  IN [frame |-> frameId, contract |-> contract, function |-> function,
      rule |-> IF empty THEN finding.rule ELSE <<>>]

\* `${finding.rule}:${context}`
KeyOf(finding) == [rule |-> finding.rule, context |-> extractFindingContext(finding)]

severityRank(severity) ==
  CASE severity = "critical" -> 5
    [] severity = "high" -> 4
    [] severity = "medium" -> 3
    [] severity = "low" -> 2
    [] severity = "informational" -> 1
    [] OTHER -> 0

MergedMarker == <<"[", "M", "E", "R", "G", "E", "D", "]">>

\* findingMap and allFindings: keys[k] is the key under which all[k] was stored.
NoFindings == [all |-> <<>>, keys |-> <<>>]
HasKey(acc, key) == \E k \in 1..Len(acc.keys) : acc.keys[k] = key
Stored(acc, finding) ==
  [all |-> Append(acc.all, finding), keys |-> Append(acc.keys, KeyOf(finding))]

\* dynamicFindings.forEach: a finding is stored unless its key is taken.
RECURSIVE AddDynamic(_, _)
AddDynamic(acc, dynamicFindings) ==
  IF dynamicFindings = <<>> THEN acc
  ELSE AddDynamic(IF HasKey(acc, KeyOf(Head(dynamicFindings)))
                  THEN acc
                  ELSE Stored(acc, Head(dynamicFindings)),
                  Tail(dynamicFindings))

\* The title of the merged record; MarkTitle_Always marks it at every merge.
MarkTitle_Always(title) == MergedMarker \o <<" ">> \o title
MarkTitle(title) ==
  IF Includes(title, MergedMarker) THEN title ELSE MergedMarker \o <<" ">> \o title

\* The severity of the merged record; MergedSeverity_Incoming takes the
\* incoming one.
MergedSeverity_Incoming(existing, incoming) == incoming
MergedSeverity(existing, incoming) ==
  IF severityRank(incoming) > severityRank(existing) THEN incoming ELSE existing

\* The incoming evidence is put in front of the existing one.
MergeInto_Prepend(existing, staticFinding) ==
  [id |-> existing.id,
   rule |-> existing.rule,
   severity |-> MergedSeverity(existing.severity, staticFinding.severity),
   title |-> MarkTitle(existing.title),
   evidence |-> [array |-> TRUE,
                 items |-> staticFinding.evidence.items \o existing.evidence.items],
   recommendation |-> existing.recommendation,
   tags |-> existing.tags \cup staticFinding.tags]

\* The existing record after a static finding with its key came in.
MergeInto(existing, staticFinding) ==
  [id |-> existing.id,
   rule |-> existing.rule,
   severity |-> MergedSeverity(existing.severity, staticFinding.severity),
   title |-> MarkTitle(existing.title),
   evidence |-> [array |-> TRUE,
                 items |-> existing.evidence.items \o staticFinding.evidence.items],
   recommendation |-> existing.recommendation,
   tags |-> existing.tags \cup staticFinding.tags]

RECURSIVE MergeStatic(_, _)
MergeStatic(acc, staticFindings) ==
  IF staticFindings = <<>> THEN acc
  ELSE LET staticFinding == Head(staticFindings)
           key == KeyOf(staticFinding)
       IN MergeStatic(
            IF HasKey(acc, key)
            THEN LET k == CHOOSE k \in 1..Len(acc.keys) : acc.keys[k] = key
                 IN [all |-> [acc.all EXCEPT ![k] = MergeInto(acc.all[k], staticFinding)],
                     keys |-> acc.keys]
            ELSE Stored(acc, staticFinding),
            Tail(staticFindings))

\* findingMap and allFindings when mergeFindings returns.
Merging(dynamicFindings, sData, mData) ==
  MergeStatic(AddDynamic(NoFindings, dynamicFindings),
              normalizeSlitherFindings(sData) \o normalizeMythrilFindings(mData))

mergeFindings(dynamicFindings, sData, mData) == Merging(dynamicFindings, sData, mData).all

\* The objects of dynamicFindings after the call: findingMap holds the objects
\* of the list themselves, so the one stored under a key is the record the
\* static findings were merged into; the others are as they were.
ObjectsAfter(dynamicFindings, acc) ==
  LET keys == [k \in 1..Len(dynamicFindings) |-> KeyOf(dynamicFindings[k])]
      IsStored(k) == \A j \in 1..(k - 1) : keys[j] # keys[k]
      Slot(k) == CHOOSE i \in 1..Len(acc.keys) : acc.keys[i] = keys[k]
  IN [k \in 1..Len(dynamicFindings) |->
        IF IsStored(k) THEN acc.all[Slot(k)] ELSE dynamicFindings[k]]

\* A call of mergeFindings: the list it returns and the objects of the list it
\* was given, as the call leaves them.
Call(dynamicFindings, sData, mData) ==
  LET acc == Merging(dynamicFindings, sData, mData)
  IN [returned |-> acc.all, objects |-> ObjectsAfter(dynamicFindings, acc)]

\* findings.json as the pipeline reads it back: the detector's findings, their
\* ids, rules, titles and tags as texts.
Reported(list) ==
  [k \in 1..Len(list) |->
     [id |-> StaticId("VUL", list[k].id),
      rule |-> Literal(list[k].rule),
      severity |-> list[k].severity,
      title |-> Literal(list[k].title),
      evidence |-> [array |-> FALSE, items |-> <<list[k].evidence>>],
      recommendation |-> list[k].recommendation,
      tags |-> { Literal(t) : t \in list[k].tags }]]

\* The merge step of the pipeline (parse_trace.js --detect-vulns --static-scan).
Merge(sData, mData) ==
  /\ pc = "done"
  /\ slitherData' = sData
  /\ mythrilData' = mData
  /\ LET call == Call(Reported(findings), sData, mData)
     IN merged' = call.returned /\ vulnResult' = call.objects
  /\ pc' = "merged"
  /\ UNCHANGED <<parser, nLogs, structLogs, frames, frameStack, stepToFrameId, lastDepth,
                 callFrames>>
  /\ UNCHANGED detectorVars

\* The list of findings.json as runVulnDetection read it back.
LoadFindings(list) ==
  /\ pc = "start"
  /\ vulnResult' = list
  /\ pc' = "loaded"
  /\ UNCHANGED <<parser, nLogs, structLogs, frames, frameStack, stepToFrameId, lastDepth,
                 callFrames, slitherData, mythrilData, merged>>
  /\ UNCHANGED detectorVars

\* mergeFindings(dynamicFindings, slitherData, mythrilData) on the list read.
MergeLoaded(sData, mData) ==
  /\ pc = "loaded"
  /\ slitherData' = sData
  /\ mythrilData' = mData
  /\ LET call == Call(vulnResult, sData, mData)
     IN merged' = call.returned /\ vulnResult' = call.objects
  /\ pc' = "merged"
  /\ UNCHANGED <<parser, nLogs, structLogs, frames, frameStack, stepToFrameId, lastDepth,
                 callFrames>>
  /\ UNCHANGED detectorVars

\* A second call of mergeFindings with the arguments of the first.
MergeAgain ==
  /\ pc = "merged"
  /\ LET call == Call(vulnResult, slitherData, mythrilData)
     IN merged' = call.returned /\ vulnResult' = call.objects
  /\ pc' = "remerged"
  /\ UNCHANGED <<parser, nLogs, structLogs, frames, frameStack, stepToFrameId, lastDepth,
                 callFrames, slitherData, mythrilData>>
  /\ UNCHANGED detectorVars

(***************************************************************************)
(* The structLogs the frame reconstruction is checked on.                  *)
(***************************************************************************)
Depths == 1..MaxDepth

Word(v) == Hex("0x", 2, v)
\* A CALL stack as the builder reads it: outSize, outOffset, inSize, inOffset, value, to, gas.
CallStack == <<Word(0), Word(0), Word(4), Word(0), Word(0), Word(170), Word(255)>>

Log(op, depth, gasCost, stack, memory) ==
  [op |-> op, depth |-> depth, gasCost |-> gasCost, stack |-> stack, memory |-> memory]

\* sampleLogs of demoValidation.  The third stack word of its CALL is
\* 0x0000000000000000000000001234567890123456789012345678901234567890,
\* which the builder reads as inSize.
DemoCallStack ==
  <<Word(0), Hex("0x", 24, 0), Hex("0x", 64, HugeSize), Word(0), Word(0), Word(0), Word(0),
    Word(0)>>
DemoLogs ==
  <<Log("PUSH1", 1, 3, <<Word(96)>>, <<>>),
    Log("CALL", 1, 100, DemoCallStack, <<>>),
    Log("RETURN", 1, 0, <<>>, <<>>)>>

FrameLogs ==
  { Log("PUSH1", d, 3, <<Word(96)>>, <<>>) : d \in Depths }
  \cup { Log("CALL", d, 3, CallStack, <<>>) : d \in Depths }
  \cup { Log("RETURN", d, 0, <<>>, <<>>) : d \in Depths }
  \cup { Log(o, d, 3, <<>>, <<>>) : o \in {"REVERT", "INVALID"}, d \in {1, MaxDepth} }
  \cup { DemoLogs[i] : i \in 1..Len(DemoLogs) }

Next ==
  \/ BuildStart
  \/ \E log \in FrameLogs : ProcessStep(log)
  \/ CloseRemaining

Spec == Init /\ [][Next]_vars

(***************************************************************************)
(* The structLogs the closing of nested frames is checked on: calls from   *)
(* a callee, whose own callee runs one level under the deepest caller.     *)
(***************************************************************************)
\* A CREATE stack as the builder reads it: size, offset, value.
CreateStack == <<Word(0), Word(0), Word(0)>>

NestedLogs ==
  { Log(o, d, 3, IF o = "CALL" THEN CallStack ELSE <<>>, <<>>) :
      o \in {"PUSH1", "CALL"}, d \in 1..(MaxDepth + 1) }
  \cup { Log("REVERT", d, 3, <<>>, <<>>) : d \in {1, MaxDepth} }
  \cup { Log("CREATE", d, 3, CreateStack, <<>>) : d \in {1, MaxDepth} }

NextNested ==
  \/ BuildStart
  \/ \E log \in NestedLogs : ProcessStep(log)
  \/ CloseRemaining

SpecNested == Init /\ [][NextNested]_vars

(***************************************************************************)
(* The structLogs the reading of a step's gas cost and stack is checked    *)
(* on: gas costs of one and of several decimal digits, calls with their    *)
(* whole argument list on the stack, with a part of it, and with none.     *)
(***************************************************************************)
ShortStack == <<Word(0), Word(4), Word(0), Word(0), Word(170), Word(255)>>

InputLogs ==
  { Log("PUSH1", d, 3, <<Word(96)>>, <<>>) : d \in Depths }
  \cup { Log("CALL", d, 100, CallStack, <<>>) : d \in Depths }
  \cup { Log("CALL", 1, 100, ShortStack, <<>>),
         Log("CALL", 1, 100, <<>>, <<>>),
         Log("DELEGATECALL", 1, 2600, ShortStack, <<>>) }

NextInputs ==
  \/ BuildStart
  \/ \E log \in InputLogs : ProcessStep(log)
  \/ CloseRemaining

SpecInputs == Init /\ [][NextInputs]_vars

(***************************************************************************)
(* The structLogs the reentrancy rules are checked on, under both parsers. *)
(* Stack words are sequences bottom first, so the top is the last entry:   *)
(* a CALL has gas on top and its target next.                              *)
(***************************************************************************)
ExternalTarget == Hex("0x", 2 * WordBytes, 170)
PrecompileTarget == Hex("0x", AddrDigits, 1)

CallStackTo(target) ==
  <<Word(0), Word(0), Word(0), Word(0), Word(0), target, Word(255)>>
DelegateStackTo(target) ==
  <<Word(0), Word(0), Word(0), Word(0), target, Word(255)>>
\* An SSTORE has the slot on top and the value next.
StoreStack(slot) == <<Word(7), Word(slot)>>

ReentLogs ==
  { Log("RETURN", 1, 0, <<Word(0), Word(0)>>, <<>>),
    Log("CALL", 2, 3, CallStackTo(ExternalTarget), <<>>),
    Log("CALL", 2, 3, CallStackTo(PrecompileTarget), <<>>),
    Log("CALL", 2, 3, CallStackTo(TxTo), <<>>),
    Log("DELEGATECALL", 1, 3, DelegateStackTo(PrecompileTarget), <<>>),
    Log("SSTORE", 1, 3, StoreStack(1), <<>>),
    Log("SSTORE", 1, 3, StoreStack(2), <<>>),
    Log("SSTORE", 1, 3, <<>>, <<>>) }

NextReent ==
  \/ BuildStart
  \/ \E log \in ReentLogs : ProcessStep(log)
  \/ CloseRemaining
  \/ LocalStart
  \/ \E log \in ReentLogs : LocalStep(log)
  \/ LocalFinish
  \/ \E traceGiven \in BOOLEAN : Detect(traceGiven, NoFile, NoFile)

SpecReent == InitWith({"full", "local"}) /\ [][NextReent]_vars

(***************************************************************************)
(* The structLogs the arithmetic rules are checked on: REVERTs over the    *)
(* memory images of Panic(0x11), Panic(0x12) and Error(string).            *)
(***************************************************************************)
PanicWord == PANIC_SELECTOR \o Zeros(WordBytes - SelectorBytes)
CodeWord(code) == <<0, 0, 0, code>> \o Zeros(WordBytes - SelectorBytes)
ErrorWord == <<8, 195, 121, 160>> \o Zeros(WordBytes - SelectorBytes)
PanicMemory == <<PanicWord, CodeWord(17)>>

\* A REVERT has the offset on top and the size next.
RevertLog(size, offset, memory) ==
  Log("REVERT", 1, 0, <<Word(size), Word(offset)>>, memory)

OverflowLogs ==
  { Log("ADD", 1, 3, <<Word(1), Word(2)>>, <<>>),
    RevertLog(36, 0, PanicMemory),
    RevertLog(MAX_REVERT_SIZE, 32, <<Zeros(WordBytes)>> \o PanicMemory),
    RevertLog(MAX_REVERT_SIZE + 1, 0, PanicMemory),
    RevertLog(35, 0, PanicMemory),
    RevertLog(36, 0, <<PanicWord, CodeWord(18)>>),
    RevertLog(36, 0, <<ErrorWord, CodeWord(17)>>),
    RevertLog(36, 0, <<>>),
    Log("REVERT", 1, 0, <<>>, PanicMemory) }

NextOverflow ==
  \/ BuildStart
  \/ \E log \in OverflowLogs : ProcessStep(log)
  \/ CloseRemaining
  \/ LocalStart
  \/ \E log \in OverflowLogs : LocalStep(log)
  \/ LocalFinish
  \/ \E traceGiven \in BOOLEAN : Detect(traceGiven, NoFile, NoFile)

SpecOverflow == InitWith({"full", "local"}) /\ [][NextOverflow]_vars

(***************************************************************************)
(* The runs the arithmetic fallback is checked on: traces of up to         *)
(* MaxFallbackSteps steps of ADD, POP and a REVERT without return data.    *)
(***************************************************************************)
FallbackLogs ==
  { Log("ADD", 1, 3, <<Word(1), Word(2)>>, <<>>),
    Log("POP", 1, 2, <<Word(1)>>, <<>>),
    Log("REVERT", 1, 0, <<>>, <<>>) }

NextFallback ==
  \/ BuildStart
  \/ \E log \in FallbackLogs : ProcessStep(log)
  \/ CloseRemaining
  \/ \E traceGiven \in BOOLEAN : Detect(traceGiven, NoFile, NoFile)

SpecFallback == InitOf({"full"}, 0..MaxFallbackSteps) /\ [][NextFallback]_vars

(***************************************************************************)
(* The runs the windows of detectUncheckedCalls and findNearbyControl are  *)
(* checked on: traces of MaxWindowSteps - 1 or MaxWindowSteps steps that   *)
(* may start with ORIGIN and CALL and go on with POPs and at most one      *)
(* JUMPI.                                                                  *)
(***************************************************************************)
OpsOf(logs) == { logs[k].op : k \in 1..Len(logs) }

WindowLogs(logs) ==
  CASE Len(logs) = 0 -> { Log("ORIGIN", 1, 0, <<>>, <<>>), Log("POP", 1, 0, <<Word(1)>>, <<>>) }
    [] Len(logs) = 1 -> { Log("CALL", 1, 0, CallStackTo(ExternalTarget), <<>>),
                          Log("POP", 1, 0, <<Word(1)>>, <<>>) }
    [] OTHER -> { Log("POP", 1, 0, <<Word(1)>>, <<>>) }
                \cup (IF "JUMPI" \in OpsOf(logs) THEN {}
                      ELSE { Log("JUMPI", 1, 0, <<Word(1), Word(2)>>, <<>>) })

NextWindow ==
  \/ BuildStart
  \/ \E log \in WindowLogs(structLogs) : ProcessStep(log)
  \/ CloseRemaining
  \/ \E traceGiven \in BOOLEAN : Detect(traceGiven, NoFile, NoFile)

SpecWindow ==
  InitOf({"full"}, (MaxWindowSteps - 1)..MaxWindowSteps) /\ [][NextWindow]_vars


(***************************************************************************)
(* The runs the DELEGATECALL rule is checked on: the address is pushed by  *)
(* PUSH20, GAS follows, then DELEGATECALL; and logs whose stacks hold the  *)
(* address where checkPUSH20Preceding and extractDelegatecallTarget look.  *)
(***************************************************************************)
AccessLogs ==
  { Log("PUSH1", 1, 0, <<ExternalTarget>>, <<>>),
    Log("PUSH20", 1, 0, <<Word(0), Word(0), Word(0), Word(0)>>, <<>>),
    Log("GAS", 1, 0, <<Word(0), Word(0), Word(0), Word(0), ExternalTarget>>, <<>>),
    Log("SWAP1", 1, 0, <<Word(0), ExternalTarget, Word(0), Word(0), Word(0), Word(0)>>, <<>>),
    Log("DELEGATECALL", 1, 0, DelegateStackTo(ExternalTarget), <<>>),
    Log("DELEGATECALL", 1, 0, <<>>, <<>>) }

NextAccess ==
  \/ BuildStart
  \/ \E log \in AccessLogs : ProcessStep(log)
  \/ CloseRemaining
  \/ \E traceGiven \in BOOLEAN : Detect(traceGiven, NoFile, NoFile)

SpecAccess == InitWith({"full"}) /\ [][NextAccess]_vars

(***************************************************************************)
(* The runs the legacy reentrancy detector is checked on: CALLVALUE is a   *)
(* row with isCall that opens no frame.                                    *)
(***************************************************************************)
LegacyLogs ==
  { Log("CALLVALUE", 1, 0, <<>>, <<>>),
    Log("SSTORE", 1, 0, StoreStack(1), <<>>),
    Log("DELEGATECALL", 1, 0, DelegateStackTo(ExternalTarget), <<>>),
    Log("STOP", 1, 0, <<>>, <<>>) }

NextLegacy ==
  \/ BuildStart
  \/ \E log \in LegacyLogs : ProcessStep(log)
  \/ CloseRemaining
  \/ LocalStart
  \/ \E log \in LegacyLogs : LocalStep(log)
  \/ LocalFinish
  \/ \E traceGiven \in BOOLEAN : Detect(traceGiven, NoFile, NoFile)

SpecLegacy == InitWith({"full", "local"}) /\ [][NextLegacy]_vars

(***************************************************************************)
(* The runs the merge is checked on: a trace of calls, arithmetic, ORIGIN  *)
(* and control operations through the full parser and the detector as the  *)
(* pipeline starts it (no --trace), then mergeFindings with analyzer        *)
(* outputs of every shape.                                                 *)
(***************************************************************************)
MergeLogs ==
  { Log("CALL", 1, 0, CallStackTo(ExternalTarget), <<>>),
    Log("ADD", 1, 0, <<Word(1), Word(2)>>, <<>>),
    Log("REVERT", 1, 0, <<>>, <<>>),
    Log("ORIGIN", 1, 0, <<>>, <<>>),
    Log("JUMPI", 1, 0, <<Word(1), Word(2)>>, <<>>) }

TextOverflowCapital == <<"O", "v", "e", "r", "f", "l", "o", "w">>
TextOther == <<"x">>

SlitherInputs ==
  { Null,
    ObjectWith(NotAList),
    ObjectWith(Absent),
    ArrayOf(<<NullEntry, SlitherResult(<<>>, MythrilLevel.high)>>),
    ObjectWith(ArrayOf(<<SlitherResult(KwOverflow, MythrilLevel.high),
                         SlitherResult(TextOverflowCapital, SlitherLevel.low)>>)),
    ArrayOf(<<SlitherResult(Keyword.txOriginDash, MythrilLevel.informational),
              SlitherResult(TextOther, <<>>)>>) }

MythrilInputs ==
  { Null,
    ObjectWith(NotAList),
    ArrayOf(<<NullEntry, MythrilIssue(<<>>, MythrilLevel.high)>>),
    ObjectWith(ArrayOf(<<MythrilIssue(KwOverflow, MythrilLevel.high)>>)),
    ArrayOf(<<MythrilIssue(TextOverflowCapital, SlitherLevel.high)>>),
    ArrayOf(<<MythrilIssue(Keyword.call, MythrilLevel.low),
              MythrilIssue(KwUnderflow, MythrilLevel.medium)>>) }

NextMerge ==
  \/ BuildStart
  \/ \E log \in MergeLogs : ProcessStep(log)
  \/ CloseRemaining
  \/ Detect(FALSE, NoFile, NoFile)
  \/ DetectAgain(FALSE, NoFile, NoFile)
  \/ \E sData \in SlitherInputs, mData \in MythrilInputs : Merge(sData, mData)

SpecMerge == InitWith({"full"}) /\ [][NextMerge]_vars

(***************************************************************************)
(* mergeFindings on lists of findings whose evidence names a frame, a      *)
(* contract, a function, or none of them.                                  *)
(***************************************************************************)
GivenFinding(n, rule, evidence) ==
  [id |-> StaticId("VUL", n),
   rule |-> Literal(rule),
   severity |-> "medium",
   title |-> Literal(rule),
   evidence |-> [array |-> FALSE, items |-> <<evidence>>],
   recommendation |-> getRecommendation(rule),
   tags |-> {Literal("dynamic")}]

ContractA == Literal("A")
ContractB == Literal("B")
FunctionF == Literal("f")

GivenLists ==
  { <<>>,
    << GivenFinding(1, "TxOriginAuthHeuristic", [frameId |-> 0]),
       GivenFinding(2, "ArithmeticOverflowUnderflow", [step |-> 1]) >>,
    << GivenFinding(1, "UncheckedExternalCall", [frameId |-> 1, contract |-> ContractA]),
       GivenFinding(2, "UncheckedExternalCall", [frameId |-> 1, contract |-> ContractB]) >>,
    << GivenFinding(1, "ArithmeticOverflowUnderflow",
                    [contract |-> ContractA, function |-> FunctionF]),
       GivenFinding(2, "ArithmeticOverflowUnderflow",
                    [contract |-> ContractA, function |-> FunctionF]) >>,
    << GivenFinding(1, "TxOriginAuthHeuristic", [step |-> 1]),
       GivenFinding(2, "TxOriginAuthHeuristic", [frameId |-> 0]),
       GivenFinding(3, "TxOriginAuthHeuristic", [frameId |-> 0]) >> }

NextGiven ==
  \/ \E list \in GivenLists : LoadFindings(list)
  \/ \E sData \in SlitherInputs, mData \in MythrilInputs : MergeLoaded(sData, mData)
  \/ MergeAgain

SpecGiven == InitOf({"full"}, {0}) /\ [][NextGiven]_vars


(***************************************************************************)
(* Properties of the result of buildCallFrames.                            *)
(***************************************************************************)
\* buildCallFrames has returned {frames, stepToFrameId} for a non-empty trace.
Returned == parser = "full" /\ nLogs > 0 /\ pc \notin {"start", "loop", "thrown"}

NonRoot(fs) == { i \in 1..Len(fs) : fs[i].parentId # NullId }
Occurrences(seq, x) == Cardinality({ k \in 1..Len(seq) : seq[k] = x })

\* C1: for a non-empty trace the returned stepToFrameId has one entry per step
\* index 0..N-1, and every entry is the id of a returned frame.
C1_StepMapTotal ==
  Returned =>
    /\ Len(stepToFrameId) = nLogs
    /\ \A i \in 1..Len(stepToFrameId) : stepToFrameId[i] \in FrameIds(frames)

\* A returned trace of at least three steps with a step attributed to a nested frame.
C1_Witness ==
  /\ Returned
  /\ nLogs >= 3
  /\ \E i \in 1..Len(stepToFrameId) : stepToFrameId[i] # 0

\* C2: every non-root frame's depth is its parent's depth plus 1 (the root has depth 0).
C2_DepthIsParentPlusOne ==
  Returned =>
    /\ frames[1].depth = 0
    /\ \A i \in NonRoot(frames) : frames[i].depth = frames[frames[i].parentId + 1].depth + 1

\* C3: every returned frame has 0 <= startStep <= endStep <= N - 1, closed by a
\* depth decrease or force-closed at stream end.
C3_StepBounds ==
  Returned =>
    \A i \in 1..Len(frames) :
      /\ 0 <= frames[i].startStep
      /\ frames[i].startStep <= frames[i].endStep
      /\ frames[i].endStep <= nLogs - 1

\* One frame was closed by a depth decrease before the last step, another was
\* still open at stream end.
C3_Witness ==
  /\ Returned
  /\ \E i \in NonRoot(frames) : frames[i].endStep < nLogs - 1
  /\ \E i \in NonRoot(frames) : frames[i].endStep = nLogs - 1 /\ frames[i].startStep < nLogs - 1

\* C4: the returned frames form a tree: only the root has a null parentId, every
\* parentId and every listed child is an existing frame, and each non-root
\* frame is listed exactly once by its parent and by no other frame.
C4_Tree ==
  Returned =>
    /\ \A i \in 1..Len(frames) : (frames[i].parentId = NullId) <=> (i = 1)
    /\ \A i \in NonRoot(frames) : frames[i].parentId \in FrameIds(frames)
    /\ \A i \in 1..Len(frames) : \A k \in 1..Len(frames[i].children) :
          frames[i].children[k] \in FrameIds(frames)
    /\ \A i \in NonRoot(frames) : \A j \in 1..Len(frames) :
          Occurrences(frames[j].children, frames[i].id) =
            IF frames[j].id = frames[i].parentId THEN 1 ELSE 0

\* A returned tree of at least three frames, one of them the child of a non-root frame.
C4_Witness ==
  /\ Returned
  /\ Len(frames) >= 3
  /\ \E i \in NonRoot(frames) : frames[i].parentId # 0

\* C5: validateFrames on the frames buildCallFrames returns reports valid with an
\* empty issue list, for any trace.
C5_ValidationPasses ==
  Returned => (validateFrames(frames).valid /\ validateFrames(frames).issues = <<>>)

(***************************************************************************)
(* Properties of the findings of the frame-aware reentrancy rules.  The    *)
(* trace is described from structLogs and stepToFrameId alone: a frame     *)
(* contains the steps mapped to its id.                                    *)
(***************************************************************************)
Detected == pc = "done"

\* The frames the detector is given (parsed callFrames).
GivenFrames == { frames[callFrames[k] + 1] : k \in 1..Len(callFrames) }
AllFrames == { frames[i] : i \in 1..Len(frames) }

StepsOf(fid) == { i \in 1..Len(stepToFrameId) : stepToFrameId[i] = fid }
CallStepsOf(fid) == { i \in StepsOf(fid) : structLogs[i].op \in ExternalCallOps }
\* The same-frame SSTOREs after step k, and those the parser recorded with a slot.
StoreStepsAfter(fid, k) == { i \in StepsOf(fid) : i > k /\ structLogs[i].op = "SSTORE" }
RecordedStoresAfter(fid, k) ==
  { i \in StoreStepsAfter(fid, k) : Len(structLogs[i].stack) >= 2 }

RECURSIVE SortedSeq(_)
SortedSeq(S) ==
  IF S = {} THEN <<>>
  ELSE LET m == CHOOSE x \in S : \A y \in S : x <= y
       IN <<m>> \o SortedSeq(S \ {m})

FrameFindings(fid) ==
  { k \in 1..Len(findings) :
      findings[k].rule = "ReentrancyHeuristicFrame" /\ findings[k].evidence.frameId = fid }
CallFindings(fid, callStep, severity) ==
  { k \in FrameFindings(fid) :
      findings[k].severity = severity /\ findings[k].evidence.externalCall.step = callStep }
LegacyFindings == { k \in 1..Len(findings) : findings[k].rule = "reentrancy" }

\* A frame with exactly one call instruction, of the given opcode, and no child frame.
LoneCallFrame(fr, op) ==
  /\ Cardinality(CallStepsOf(fr.id)) = 1
  /\ \A c \in CallStepsOf(fr.id) : structLogs[c].op = op
  /\ fr.children = <<>>

NoWriteAfterCall(fr) == \A c \in CallStepsOf(fr.id) : StoreStepsAfter(fr.id, c) = {}

\* C6: a frame that contains one plain CALL, has no child frames and has no
\* same-frame SSTORE after the call step yields no reentrancy finding.
C6_PlainCallNoFinding ==
  Detected =>
    \A fr \in AllFrames :
      (LoneCallFrame(fr, "CALL") /\ NoWriteAfterCall(fr))
        => (FrameFindings(fr.id) = {} /\ LegacyFindings = {})

\* Such a frame next to a frame of the same trace that does yield a finding.
C6_Witness ==
  /\ Detected
  /\ \E fr \in GivenFrames : LoneCallFrame(fr, "CALL") /\ NoWriteAfterCall(fr)
  /\ \E fr \in GivenFrames : FrameFindings(fr.id) # {}

\* C7 as stated: the same frame (no child frames, no post-call write) with a
\* DELEGATECALL in place of the CALL yields a high-severity reentrancy finding.
C7_DelegatecallNoWriteHigh ==
  Detected =>
    \A fr \in GivenFrames :
      (LoneCallFrame(fr, "DELEGATECALL") /\ NoWriteAfterCall(fr))
        => \E c \in CallStepsOf(fr.id) : CallFindings(fr.id, c, "high") # {}

\* C7, amended: a childless frame of callFrames whose one call is a DELEGATECALL
\* yields exactly one high-severity reentrancy finding when at least one
\* same-frame SSTORE recorded in sstores follows the call, naming those
\* SSTOREs, and no reentrancy finding when none follows.
C7_DelegatecallWriteHigh ==
  Detected =>
    \A fr \in GivenFrames :
      LoneCallFrame(fr, "DELEGATECALL") =>
        \A c \in CallStepsOf(fr.id) :
          IF RecordedStoresAfter(fr.id, c) # {}
          THEN /\ Cardinality(CallFindings(fr.id, c, "high")) = 1
               /\ \A k \in CallFindings(fr.id, c, "high") :
                    Steps(findings[k].evidence.sstores)
                      = SortedSeq(RecordedStoresAfter(fr.id, c))
          ELSE FrameFindings(fr.id) = {}

\* A childless DELEGATECALL frame with a post-call write and its high finding.
C7_Witness ==
  /\ Detected
  /\ \E fr \in GivenFrames :
       /\ LoneCallFrame(fr, "DELEGATECALL")
       /\ \E c \in CallStepsOf(fr.id) :
            RecordedStoresAfter(fr.id, c) # {} /\ CallFindings(fr.id, c, "high") # {}

\* The address a call instruction names: the stack entry under the gas.
TargetOf(c) ==
  IF Len(structLogs[c].stack) >= 2 THEN extractAddress(FromTop(structLogs[c].stack, 2))
  ELSE NullStr

ExcludedTarget(c, fr) == TargetOf(c) # NullStr /\ (TargetOf(c) \in PRECOMPILES \/ TargetOf(c) = fr.to)

\* An external call: a DELEGATECALL, or a call to neither a precompile nor
\* the frame's own address.
ExternalCallAt(c, fr) == structLogs[c].op = "DELEGATECALL" \/ ~ExcludedTarget(c, fr)

\* The slots written by the recorded same-frame SSTOREs after step c.
SlotsAfter(fid, c) ==
  { FromTop(structLogs[i].stack, 1).val : i \in RecordedStoresAfter(fid, c) }
WritesTo(fid, c, slot) ==
  { i \in RecordedStoresAfter(fid, c) : FromTop(structLogs[i].stack, 1).val = slot }

C9_ExcludedTargetsNoFinding ==
  (Detected /\ trace) =>
    \A fr \in GivenFrames : \A c \in CallStepsOf(fr.id) :
      (structLogs[c].op \in {"CALL", "STATICCALL", "CALLCODE"} /\ ExcludedTarget(c, fr))
        => (CallFindings(fr.id, c, "high") = {} /\ CallFindings(fr.id, c, "medium") = {})

(***************************************************************************)
(* Properties of the findings of the Panic(0x11) rule.  The payload of a   *)
(* REVERT is the memory window its stack arguments name, as the EVM reads  *)
(* it (zero beyond the end of memory).                                     *)
(***************************************************************************)
RevertSteps == { i \in 1..Len(structLogs) : structLogs[i].op = "REVERT" }

HasRevertArgs(i) == Len(structLogs[i].stack) >= 2
RevertOffset(i) == hexToNumber(FromTop(structLogs[i].stack, 1))
RevertSize(i) == hexToNumber(FromTop(structLogs[i].stack, 2))
Payload(i) == readMemory(structLogs[i].memory, RevertOffset(i), RevertSize(i))

\* Selector 0x4e487b71 followed by the 32-byte code 0x11.
DecodesAsArithmeticPanic(i) ==
  /\ HasRevertArgs(i)
  /\ LET payload == Payload(i)
     IN /\ Len(payload) >= 36
        /\ SubSeq(payload, 1, 4) = <<78, 72, 123, 113>>
        /\ SubSeq(payload, 5, 36) = Zeros(31) \o <<17>>

PanicFindings(i) ==
  { k \in 1..Len(findings) :
      /\ findings[k].rule = "ArithmeticOverflowUnderflow"
      /\ findings[k].severity = "high"
      /\ "dynamic" \in findings[k].tags
      /\ findings[k].evidence.revert_step = i }

HighPanicFindings ==
  { k \in 1..Len(findings) :
      /\ findings[k].rule = "ArithmeticOverflowUnderflow"
      /\ findings[k].severity = "high"
      /\ "panic-detected" \in findings[k].tags }

MediumHeuristicFindings ==
  { k \in 1..Len(findings) :
      /\ findings[k].rule = "ArithmeticOverflowUnderflow"
      /\ findings[k].severity = "medium"
      /\ "heuristic" \in findings[k].tags }

\* C11: the fallback heuristic runs only if no REVERT decoded as an arithmetic
\* panic: a run that emitted at least one high-severity panic finding emits no
\* medium-severity heuristic ArithmeticOverflowUnderflow finding.
C11_NoHeuristicAfterPanic ==
  Detected => (HighPanicFindings # {} => MediumHeuristicFindings = {})

\* ---------------------------------------------------------------------------
\* mergeFindings (merge_findings.js 276-347)
\* ---------------------------------------------------------------------------

Merged == pc = "merged"

\* What mergeFindings was given: the detector's findings, the normalized
\* findings of the analyzers, and the key of each.
MergeInput ==
  LET dyn == Reported(findings)
      stat == normalizeSlitherFindings(slitherData) \o normalizeMythrilFindings(mythrilData)
  IN [dyn |-> dyn, stat |-> stat,
      dynKeys |-> [k \in 1..Len(dyn) |-> KeyOf(dyn[k])],
      statKeys |-> [k \in 1..Len(stat) |-> KeyOf(stat[k])]]

StaticKeys(in) == { in.statKeys[k] : k \in 1..Len(in.stat) }
DynamicWith(in, key) == { k \in 1..Len(in.dyn) : in.dynKeys[k] = key }
StaticWith(in, key) == { k \in 1..Len(in.stat) : in.statKeys[k] = key }
MinOf(S) == CHOOSE x \in S : \A y \in S : x <= y

\* The finding that was stored under the key, and the static findings that
\* came in under it afterwards.
OriginalOf(in, key) ==
  IF DynamicWith(in, key) # {} THEN in.dyn[MinOf(DynamicWith(in, key))]
  ELSE in.stat[MinOf(StaticWith(in, key))]
IncomingOf(in, key) ==
  IF DynamicWith(in, key) # {} THEN StaticWith(in, key)
  ELSE StaticWith(in, key) \ {MinOf(StaticWith(in, key))}

\* The records of the output that stem from a finding of the key.
RecordsOf(in, key) ==
  { k \in 1..Len(merged) :
      \/ \E j \in DynamicWith(in, key) : merged[k].id = in.dyn[j].id
      \/ \E j \in StaticWith(in, key) : merged[k].id = in.stat[j].id }

MarkerCount(title) ==
  Cardinality({ i \in 1..(Len(title) - Len(MergedMarker) + 1) :
                  SubSeq(title, i, i + Len(MergedMarker) - 1) = MergedMarker })

\* C12: static findings that come in, once or several times, under the key of
\* a record that exists leave one record of that key, whose title holds the
\* marker [MERGED] exactly once.
C12_MergedMarkerOnce ==
  Merged =>
    LET in == MergeInput
    IN \A key \in StaticKeys(in) :
         IncomingOf(in, key) # {} =>
           /\ Cardinality(RecordsOf(in, key)) = 1
           /\ \A k \in RecordsOf(in, key) : MarkerCount(merged[k].title) = 1

\* Two static findings came in under the key of a detector's finding.
C12_Witness ==
  /\ Merged
  /\ LET in == MergeInput
     IN \E key \in StaticKeys(in) :
          /\ DynamicWith(in, key) # {}
          /\ Cardinality(IncomingOf(in, key)) >= 2
          /\ \A k \in RecordsOf(in, key) : MarkerCount(merged[k].title) = 1

MaxRank(S) == CHOOSE r \in S : \A q \in S : q <= r

\* C13: the severity of the surviving record is the highest-ranked among the
\* original finding and all the findings merged into it, and is never below
\* the original's.
C13_SeverityIsMax ==
  Merged =>
    LET in == MergeInput
    IN \A key \in StaticKeys(in) :
         IncomingOf(in, key) # {} =>
           \A k \in RecordsOf(in, key) :
             /\ severityRank(merged[k].severity)
                  = MaxRank({severityRank(OriginalOf(in, key).severity)}
                            \cup { severityRank(in.stat[j].severity) :
                                     j \in IncomingOf(in, key) })
             /\ severityRank(merged[k].severity)
                  >= severityRank(OriginalOf(in, key).severity)

\* A medium finding of the detector into which a high and then a low static
\* finding were merged is high.
C13_Witness ==
  /\ Merged
  /\ LET in == MergeInput
     IN \E key \in StaticKeys(in) :
          /\ DynamicWith(in, key) # {}
          /\ OriginalOf(in, key).severity = "medium"
          /\ \E j, l \in IncomingOf(in, key) :
               j < l /\ in.stat[j].severity = "high" /\ in.stat[l].severity = "low"
          /\ \A k \in RecordsOf(in, key) : merged[k].severity = "high"

\* C14: every finding of the detector appears in the output, in the original
\* order and ahead of every record of an external source; none is dropped.
C14_DetectorFindingsKept ==
  Merged =>
    LET in == MergeInput
    IN /\ Len(merged) >= Len(in.dyn)
       /\ \A k \in 1..Len(in.dyn) : merged[k].id = in.dyn[k].id

\* ---------------------------------------------------------------------------
\* Severity of external findings (merge_findings.js 163-185)
\* ---------------------------------------------------------------------------

\* The severity the word stands for, whatever its capitalisation.
ExpectedSeverity(word) ==
  LET lower == toLowerCase(word)
  IN CASE lower = SlitherLevel.high -> "high"
       [] lower = SlitherLevel.medium -> "medium"
       [] lower = SlitherLevel.low -> "low"
       [] lower = SlitherLevel.informational -> "low"
       [] OTHER -> "medium"

\* C19: the normalization maps the severity word of either vendor without
\* regard to case: any capitalisation of high, medium, low gives that level,
\* informational gives low, an unrecognised or missing word gives medium; the
\* same word gives the same level as a Slither impact and as a Mythril
\* severity.
C19_SeverityCaseInsensitive ==
  Merged =>
    LET slither == normalizeSlitherFindings(slitherData)
        mythril == normalizeMythrilFindings(mythrilData)
    IN /\ \A k \in 1..Len(slither) :
            slither[k].severity = ExpectedSeverity(slither[k].evidence.items[1].impact)
       /\ \A k \in 1..Len(mythril) :
            mythril[k].severity = ExpectedSeverity(mythril[k].evidence.items[1].severity)

\* ---------------------------------------------------------------------------
\* Unusable analyzer output (merge_findings.js 19-29, 61-71, 276-298)
\* ---------------------------------------------------------------------------

\* The entries of an analyzer output that is a list or holds one.
Entries(data) ==
  IF data.kind = "array" THEN data.items
  ELSE IF data.kind = "object" /\ data.results.kind = "array" THEN data.results.items
  ELSE <<>>

\* The output is null, holds no list, or has only entries without a check
\* (a title).
SlitherUnusable ==
  \/ slitherData.kind \notin {"array", "object"}
  \/ slitherData.kind = "object" /\ slitherData.results.kind # "array"
  \/ \A k \in 1..Len(Entries(slitherData)) :
       Entries(slitherData)[k].kind = "null" \/ Entries(slitherData)[k].check = <<>>
MythrilUnusable ==
  \/ mythrilData.kind \notin {"array", "object"}
  \/ mythrilData.kind = "object" /\ mythrilData.results.kind # "array"
  \/ \A k \in 1..Len(Entries(mythrilData)) :
       Entries(mythrilData)[k].kind = "null" \/ Entries(mythrilData)[k].title = <<>>

FromSource(source) == { k \in 1..Len(merged) : merged[k].id.source = source }

\* C20: an analyzer output that is null, holds no list or has only entries
\* without check (title) contributes nothing: the merge returns what it
\* returns without that source, the other source's findings included.
C20_UnusableSourceIgnored ==
  Merged =>
    /\ SlitherUnusable => merged = mergeFindings(Reported(findings), Null, mythrilData)
    /\ MythrilUnusable => merged = mergeFindings(Reported(findings), slitherData, Null)

\* A Slither list of a null entry and an entry without check, merged with
\* the detector's findings and a Mythril finding.
C20_Witness ==
  /\ Merged
  /\ slitherData.kind = "array"
  /\ Len(slitherData.items) > 0
  /\ SlitherUnusable
  /\ FromSource("STATIC-SLITHER") = {}
  /\ FromSource("STATIC-MYTHRIL") # {}
  /\ FromSource("VUL") # {}

\* ---------------------------------------------------------------------------
\* Unchecked calls (vuln_detect.js 343-380)
\* ---------------------------------------------------------------------------

\* Steps are counted from 1, as row.step is; step i is row index i - 1.
StepsWithOp(ops) == { i \in 1..Len(structLogs) : structLogs[i].op \in ops }

\* One of the n steps that follow step i (fewer at the end of the trace) has
\* one of the ops.
OpWithin(i, n, ops) ==
  \E j \in (i + 1)..Min(i + n, Len(structLogs)) : structLogs[j].op \in ops

UncheckedFindings(i) ==
  { k \in 1..Len(findings) :
      /\ findings[k].rule = "unchecked_call"
      /\ findings[k].severity = "medium"
      /\ findings[k].evidence.call_step = i }

\* C15: each CALL, STATICCALL, DELEGATECALL or CALLCODE at row index i has
\* exactly one medium unchecked_call finding if none of the rows i+1 .. i+20
\* (fewer at the end of the trace) is ISZERO, REVERT, JUMPI or REQUIRE, and
\* none otherwise.
C15_UncheckedCallWindow20 ==
  Detected =>
    \A i \in StepsWithOp({"CALL", "STATICCALL", "DELEGATECALL", "CALLCODE"}) :
      Cardinality(UncheckedFindings(i))
        = IF OpWithin(i, 20, {"ISZERO", "REVERT", "JUMPI", "REQUIRE"}) THEN 0 ELSE 1

\* ---------------------------------------------------------------------------
\* tx.origin (vuln_detect.js 431-449, 483-514)
\* ---------------------------------------------------------------------------

FrameOfStep(i) == IF i <= Len(stepToFrameId) THEN stepToFrameId[i] ELSE Undefined

\* One of the n steps that follow step i is a JUMPI, REVERT or REQUIRE of the
\* frame of step i.
ControlWithin(i, n) ==
  \E j \in (i + 1)..Min(i + n, Len(structLogs)) :
    /\ structLogs[j].op \in {"JUMPI", "REVERT", "REQUIRE"}
    /\ FrameOfStep(j) = FrameOfStep(i)

OriginFindings(i) ==
  { k \in 1..Len(findings) :
      findings[k].rule = "TxOriginAuthHeuristic" /\ findings[k].evidence.step = i }

\* C16: every ORIGIN step has exactly one TxOriginAuthHeuristic finding; it is
\* medium if a JUMPI, REVERT or REQUIRE of the same frame is among the 50
\* steps that follow, and low otherwise.
C16_OriginWindow50 ==
  Detected =>
    \A i \in StepsWithOp({"ORIGIN"}) :
      /\ Cardinality(OriginFindings(i)) = 1
      /\ \A k \in OriginFindings(i) :
           findings[k].severity = IF ControlWithin(i, 50) THEN "medium" ELSE "low"

\* ---------------------------------------------------------------------------
\* DELEGATECALL target (vuln_detect.js 397-426, 456-469, 517-552)
\* ---------------------------------------------------------------------------

DelegatecallFindings(i) ==
  { k \in 1..Len(findings) :
      findings[k].rule = "DelegatecallTargetHeuristic" /\ findings[k].evidence.step = i }

\* The address DELEGATECALL at step i calls: the second entry from the top of
\* its own stack; null without the trace or the entry.
OwnTarget(i) ==
  IF ~trace \/ Len(structLogs[i].stack) < 2 THEN NullStr
  ELSE extractAddressFromStack(FromTop(structLogs[i].stack, 2))

\* A PUSH20 of the same frame among the 10 steps before step i pushed the
\* target: it is on top of the stack of the step after the PUSH20.
TargetPushed(i) ==
  /\ OwnTarget(i) # NullStr
  /\ \E j \in Max(1, i - 10)..(i - 1) :
       /\ structLogs[j].op = "PUSH20"
       /\ FrameOfStep(j) = FrameOfStep(i)
       /\ Len(structLogs[j + 1].stack) > 0
       /\ extractAddressFromStack(FromTop(structLogs[j + 1].stack, 1)) = OwnTarget(i)

\* C17: every DELEGATECALL step has exactly one DelegatecallTargetHeuristic
\* finding; it is medium if the target address on the step's own stack was
\* pushed by a PUSH20 of the same frame within the 10 preceding steps, and
\* high otherwise (so whenever the stack data is unavailable).
C17_DelegatecallTargetConstant ==
  Detected =>
    \A i \in StepsWithOp({"DELEGATECALL"}) :
      /\ Cardinality(DelegatecallFindings(i)) = 1
      /\ \A k \in DelegatecallFindings(i) :
           findings[k].severity = IF TargetPushed(i) THEN "medium" ELSE "high"

\* ---------------------------------------------------------------------------
\* Legacy reentrancy detector (vuln_detect.js 114-120, 292-340)
\* ---------------------------------------------------------------------------

WithRule(rule) == { k \in 1..Len(findings) : findings[k].rule = rule }

\* C18: the legacy detector runs only without frame data and reports once:
\* no run has both a finding of rule reentrancy and one of rule
\* ReentrancyHeuristicFrame, and a run has at most one finding of rule
\* reentrancy.
C18_LegacyOnlyWithoutFrames ==
  Detected =>
    /\ ~(WithRule("reentrancy") # {} /\ WithRule("ReentrancyHeuristicFrame") # {})
    /\ Cardinality(WithRule("reentrancy")) <= 1
    /\ WithRule("reentrancy") # {} => (Len(callFrames) = 0 \/ Len(stepToFrameId) = 0)

\* A run without frames in which two SSTOREs follow a row with isCall, with
\* its one legacy finding.
C18_Witness ==
  /\ Detected
  /\ Len(callFrames) = 0
  /\ Cardinality({ i \in 1..(Len(structLogs) - 1) :
                     structLogs[i].op = "CALLVALUE" /\ structLogs[i + 1].op = "SSTORE" }) >= 2
  /\ Cardinality(WithRule("reentrancy")) = 1

(***************************************************************************)
(* Closing of frames in buildCallFrames.                                   *)
(***************************************************************************)
\* The frames that are no longer on the open-frame stack.
Closed(fs, stk) == { i \in 1..Len(fs) : \A k \in 1..Len(stk) : stk[k] # fs[i].id }

\* The fields a frame acquires while it runs.
Outcome(f) ==
  [gasSpent |-> f.gasSpent, success |-> f.success, error |-> f.error,
   endStep |-> f.endStep, children |-> f.children]

Open(stk) == { stk[k] : k \in 1..Len(stk) }

\* The step taken is an iteration of the loop on a structLog of lower depth
\* than the previous one.
DepthDecrease ==
  /\ pc = "loop"
  /\ pc' = "loop"
  /\ Len(structLogs') = Len(structLogs) + 1
  /\ structLogs'[Len(structLogs')].depth < lastDepth

\* The open frames a return to the given depth leaves open: the root and the
\* frames opened by a call at a lower depth.
Resuming(fs, stk, depth) == { id \in Open(stk) : id = 0 \/ fs[id + 1].depthEnter < depth }

\* C24: on a depth decrease buildCallFrames closes exactly the open non-root
\* frames opened at a depth >= the new depth, each with endStep = the previous
\* step index; the frame of the caller that resumes at the new depth stays open.
C24_DepthDecreasePops ==
  [][DepthDecrease =>
       LET depth == structLogs'[Len(structLogs')].depth
           step == Len(structLogs)
           kept == Resuming(frames, frameStack, depth)
       IN /\ Open(frameStack) \cap Open(frameStack') = kept
          /\ \A id \in Open(frameStack) \ kept : frames'[id + 1].endStep = step - 1]_vars

\* C25: a frame closed on a depth decrease keeps a status already resolved
\* by an explicit RETURN / STOP / REVERT / INVALID whatever the opcode of the
\* step that follows the closure; an unresolved frame becomes failed if that
\* step is REVERT or INVALID and success otherwise.
C25_InferOnlyUnresolved ==
  [][DepthDecrease =>
       LET nextOp == structLogs'[Len(structLogs')].op
       IN \A id \in Open(frameStack) \ Open(frameStack') :
            frames'[id + 1].success =
              IF frames[id + 1].success # "null" THEN frames[id + 1].success
              ELSE IF nextOp \in {"REVERT", "INVALID"} THEN "false"
              ELSE "true"]_vars

\* The step taken is the closing of the frames still open at stream end.
StreamEnd == pc = "loop" /\ pc' = "built"

\* C26: at stream end every frame still open, the root included, is closed
\* with endStep = the last step index, and a frame that an explicit REVERT or
\* INVALID marked failed is still failed in the result: only an unresolved
\* status is set to success.
C26_StreamEndKeepsFailed ==
  [][StreamEnd =>
       \A id \in Open(frameStack) :
         /\ frames'[id + 1].endStep = nLogs - 1
         /\ frames[id + 1].success = "false" => frames'[id + 1].success = "false"]_vars

\* C27: every step index i lies within the bounds of the frame it is
\* attributed to: startStep <= i <= endStep for the frame with id stepToFrameId[i].
C27_StepInsideItsFrame ==
  Returned =>
    \A k \in 1..Len(stepToFrameId) :
      LET f == frames[stepToFrameId[k] + 1]
      IN f.startStep <= k - 1 /\ k - 1 <= f.endStep

\* The indices (from 1) of the steps with a call-class opcode.
CallSteps(logs) == { k \in 1..Len(logs) : logs[k].op \in CallClassOps }

\* C28: the returned frames are the root plus exactly one frame per
\* call-class step; that frame starts at the step's index and its parent is
\* the frame the step is attributed to in stepToFrameId, whether or not the
\* depth increases after the step.
C28_OneFramePerCallStep ==
  Returned =>
    /\ Len(frames) = 1 + Cardinality(CallSteps(structLogs))
    /\ \A k \in CallSteps(structLogs) :
         /\ Cardinality({ i \in NonRoot(frames) : frames[i].startStep = k - 1 }) = 1
         /\ \A i \in NonRoot(frames) :
              frames[i].startStep = k - 1 =>
                /\ frames[i].parentId = stepToFrameId[k]
                /\ frames[i].type = structLogs[k].op

\* A result with a CALL followed by a step one level deeper, a CREATE
\* followed by a step at its own depth, and a frame whose parent is not the root.
C28_Witness ==
  /\ Returned
  /\ \E k \in CallSteps(structLogs) :
       /\ k < Len(structLogs)
       /\ structLogs[k].op = "CALL"
       /\ structLogs[k + 1].depth = structLogs[k].depth + 1
  /\ \E k \in CallSteps(structLogs) :
       /\ k < Len(structLogs)
       /\ structLogs[k].op = "CREATE"
       /\ structLogs[k + 1].depth = structLogs[k].depth
  /\ \E i \in NonRoot(frames) : frames[i].parentId # 0

(***************************************************************************)
(* The legacy reentrancy detector and the arithmetic fallback.             *)
(***************************************************************************)
\* The detector ran without frame data, so that the legacy rule was applied.
LegacyRan == Detected /\ (Len(callFrames) = 0 \/ Len(stepToFrameId) = 0)

\* The pairs (i, j) of step indices of an external-call-class instruction and
\* a later SSTORE fewer than MAX_WINDOW_STEPS steps on, at a depth not above
\* the call's.
CallWritePairs(logs) ==
  { p \in (0..(Len(logs) - 1)) \X (0..(Len(logs) - 1)) :
      /\ p[1] < p[2]
      /\ logs[p[1] + 1].op \in ExternalCallOps
      /\ logs[p[2] + 1].op = "SSTORE"
      /\ p[2] - p[1] < MAX_WINDOW_STEPS
      /\ logs[p[2] + 1].depth <= logs[p[1] + 1].depth }

\* The first pair in stream order: the earliest call, then its earliest write.
FirstPair(pairs) ==
  CHOOSE p \in pairs : \A q \in pairs : p[1] < q[1] \/ (p[1] = q[1] /\ p[2] <= q[2])

\* C29: the legacy detector emits its single finding if and only if the
\* stream has a CALL, DELEGATECALL, STATICCALL or CALLCODE followed, fewer
\* than 200 steps later and at depth <= the call's depth, by an SSTORE; the
\* finding reports the first such pair in stream order.
C29_LegacyCallThenWrite ==
  LegacyRan =>
    LET pairs == CallWritePairs(structLogs)
        reported == WithRule("reentrancy")
    IN /\ Cardinality(reported) = (IF pairs = {} THEN 0 ELSE 1)
       /\ \A k \in reported :
            /\ findings[k].evidence.call_step = FirstPair(pairs)[1]
            /\ findings[k].evidence.sstore_step = FirstPair(pairs)[2]

\* The heuristic findings reported for the arithmetic row of step i (from 1).
HeuristicFindingsOf(i) ==
  { k \in MediumHeuristicFindings : findings[k].evidence.arithmetic_step = i }

\* C30: an ADD, SUB, MUL or DIV at row index i yields exactly one
\* medium-severity heuristic finding if a REVERT or INVALID occurs at one of
\* the indices i+1 .. i+5 of the trace, and none otherwise.
C30_FallbackWindow5 ==
  Detected =>
    \A i \in StepsWithOp(ArithmeticOps) :
      Cardinality(HeuristicFindingsOf(i)) =
        IF OpWithin(i, FALLBACK_WINDOW, {"REVERT", "INVALID"}) THEN 1 ELSE 0

(***************************************************************************)
(* Recommendations and ids of the merged report.                           *)
(***************************************************************************)
\* C22: the recommendation text is fixed per rule: any two findings of the
\* merged report with the same rule carry the same recommendation, whether a
\* detector created them or the normalization of an analyzer's output.
C22_RecommendationPerRule ==
  Merged =>
    \A i, j \in 1..Len(merged) :
      merged[i].rule = merged[j].rule => merged[i].recommendation = merged[j].recommendation

\* C23: finding ids are run-scoped, unique and monotonic: the ids of a
\* detector run are 1, 2, ... in emission order (VUL-0001, VUL-0002, ...), in
\* a repeated run as in the first, and the ids of a mergeFindings output built
\* from them are pairwise distinct.
C23_IdsUniqueMonotonic ==
  /\ pc \in {"done", "merged"} => \A k \in 1..Len(findings) : findings[k].id = k
  /\ Merged => \A i, j \in 1..Len(merged) : merged[i].id = merged[j].id => i = j

\* A merged report with two findings of the detector and a first record of
\* each analyzer.
C23_Witness ==
  /\ Merged
  /\ Len(findings) >= 2
  /\ \E i, j, k \in 1..Len(merged) :
       /\ merged[i].id = StaticId("VUL", 2)
       /\ merged[j].id = StaticId("STATIC-SLITHER", 1)
       /\ merged[k].id = StaticId("STATIC-MYTHRIL", 1)

(***************************************************************************)
(* Gas, stacks and statuses in the result of buildCallFrames.              *)
(***************************************************************************)
RECURSIVE SumGasSpent(_, _)
SumGasSpent(fs, n) == IF n = 0 THEN 0 ELSE fs[n].gasSpent + SumGasSpent(fs, n - 1)

RECURSIVE SumGasCost(_, _)
SumGasCost(logs, n) == IF n = 0 THEN 0 ELSE logs[n].gasCost + SumGasCost(logs, n - 1)

\* C34: gas is conserved by the reconstruction: the sum of gasSpent over the
\* returned frames equals the sum of the gasCost values of the steps.
C34_GasConserved ==
  Returned => SumGasSpent(frames, Len(frames)) = SumGasCost(structLogs, Len(structLogs))

\* The call-class steps (indices from 1) whose stack is shorter than the
\* opcode's argument list, and the trace with a whole argument list there.
ShortCallSteps(logs) ==
  { k \in CallSteps(logs) : Len(logs[k].stack) < CallArgs(logs[k].op).need }

CompleteStack(opcode) ==
  CASE opcode \in {"CALL", "CALLCODE"} -> CallStack
    [] opcode \in {"DELEGATECALL", "STATICCALL"} -> ShortStack
    [] opcode = "CREATE" -> CreateStack
    [] opcode = "CREATE2" -> CreateStack \o <<Word(0)>>

Completed(logs) ==
  [k \in 1..Len(logs) |->
     IF k \in ShortCallSteps(logs)
     THEN [logs[k] EXCEPT !.stack = CompleteStack(logs[k].op)]
     ELSE logs[k]]

\* The fields of a frame that come neither from the stack of its call step
\* nor from its parent.
Skeleton(f) ==
  [id |-> f.id, parentId |-> f.parentId, depthEnter |-> f.depthEnter, depth |-> f.depth,
   type |-> f.type, gasSpent |-> f.gasSpent, startStep |-> f.startStep,
   endStep |-> f.endStep, success |-> f.success, error |-> f.error,
   children |-> f.children]

NullParams(f) ==
  f.to = NullStr /\ f.value = NullStr /\ f.input = NullBytes /\ f.selector = NullBytes

\* The frames (indices from 1) opened by a call-class step with a short stack.
OpenedShort(fs, logs) ==
  { i \in NonRoot(fs) : fs[i].startStep + 1 \in ShortCallSteps(logs) }

\* The builder did not throw at a call-class step with a short stack.
NoThrowOnShortStack ==
  pc = "thrown" => Len(structLogs) \notin ShortCallSteps(structLogs)

\* C35 as stated: a call-class step with a missing or short stack still
\* creates its frame, with to, value, input and selector null, without
\* throwing; the step-to-frame map and the other frames are the same as if
\* the stack had been complete.
C35_ShortStackOtherFramesSame ==
  /\ NoThrowOnShortStack
  /\ Returned =>
       LET full == buildCallFrames(Completed(structLogs))
           short == OpenedShort(frames, structLogs)
       IN /\ stepToFrameId = full.stepToFrameId
          /\ Len(frames) = Len(full.frames)
          /\ \A i \in 1..Len(frames) :
               IF i \in short
               THEN /\ NullParams(frames[i])
                    /\ Skeleton(frames[i]) = Skeleton(full.frames[i])
                    /\ frames[i].from = full.frames[i].from
               ELSE frames[i] = full.frames[i]

\* C35, amended: as above, but a frame's from is the to of its parent, so it
\* is null for the frames opened while a frame of a short stack was the
\* current one; every other field is as with complete stacks.
C35_ShortStackNullFields ==
  /\ NoThrowOnShortStack
  /\ Returned =>
       LET full == buildCallFrames(Completed(structLogs))
           short == OpenedShort(frames, structLogs)
       IN /\ stepToFrameId = full.stepToFrameId
          /\ Len(frames) = Len(full.frames)
          /\ frames[1] = full.frames[1]
          /\ \A i \in NonRoot(frames) :
               /\ Skeleton(frames[i]) = Skeleton(full.frames[i])
               /\ frames[i].from = frames[frames[i].parentId + 1].to
               /\ IF i \in short THEN NullParams(frames[i])
                  ELSE /\ frames[i].to = full.frames[i].to
                       /\ frames[i].value = full.frames[i].value
                       /\ frames[i].input = full.frames[i].input
                       /\ frames[i].selector = full.frames[i].selector

\* A result with a frame of a short stack, a frame opened under it, and a
\* frame of a complete stack.
C35_Witness ==
  /\ Returned
  /\ \E i \in OpenedShort(frames, structLogs) :
       \E j \in NonRoot(frames) : frames[j].parentId = frames[i].id
  /\ \E i \in NonRoot(frames) : i \notin OpenedShort(frames, structLogs) /\ ~NullParams(frames[i])

\* C36: throughout buildCallFrames the open-frame stack is never empty and
\* has the root at its bottom, each stacked non-root frame's parentId is the
\* id of the frame directly beneath it, the ids increase strictly from bottom
\* to top, and when the function returns only the root remains.
C36_StackShape ==
  (parser = "full" /\ nLogs > 0 /\ pc \in {"loop", "built"}) =>
    /\ Len(frameStack) >= 1
    /\ frameStack[1] = 0
    /\ \A k \in 2..Len(frameStack) :
         /\ frames[frameStack[k] + 1].parentId = frameStack[k - 1]
         /\ frameStack[k - 1] < frameStack[k]
    /\ pc = "built" => frameStack = <<0>>

\* The frames (indices from 1) closed by a depth decrease, by the force-close
\* at stream end, and those an explicit RETURN or STOP resolved.
ClosedEarly(fs, n) == { i \in NonRoot(fs) : fs[i].endStep < n - 1 }
ClosedAtEnd(fs, n) == { i \in NonRoot(fs) : fs[i].endStep = n - 1 }

\* C37: in the returned frames status and error kind agree, for the root as
\* for every other frame: the error kind is REVERT or INVALID if and only if
\* the status is failed.
C37_ErrorIffFailed ==
  Returned =>
    \A i \in 1..Len(frames) :
      (frames[i].error \in {"REVERT", "INVALID"}) <=> (frames[i].success = "false")

\* C38: when buildCallFrames returns for a non-empty trace every frame's
\* status is success or failed, never left null, however the frame was closed.
C38_StatusResolved ==
  Returned => \A i \in 1..Len(frames) : frames[i].success \in {"true", "false"}

\* A result with a frame closed by a depth decrease, a frame force-closed at
\* stream end, and a step RETURN or REVERT in a non-root frame.
C38_Witness ==
  /\ Returned
  /\ ClosedEarly(frames, nLogs) # {}
  /\ ClosedAtEnd(frames, nLogs) # {}
  /\ \E k \in 1..Len(structLogs) :
       structLogs[k].op \in {"RETURN", "REVERT"} /\ stepToFrameId[k] # 0

(***************************************************************************)
(* Rules, keys and evidence of the merged report.                          *)
(***************************************************************************)
\* The rule tags of the taxonomy.
Taxonomy ==
  { Literal(r) : r \in {"ReentrancyHeuristicFrame", "ArithmeticOverflowUnderflow",
                        "DelegatecallTargetHeuristic", "TxOriginAuthHeuristic",
                        "UncheckedExternalCall", "AccessControlIssue"} }

\* C33: every finding that the normalization of an analyzer's output
\* produces has a rule tag of the fixed taxonomy, whatever the check name or
\* title of the entry.
C33_RuleFromTaxonomy ==
  Merged =>
    LET in == MergeInput
    IN \A k \in 1..Len(in.stat) : in.stat[k].rule \in Taxonomy

\* The evidence of the static findings of a set of indices, in arrival order.
RECURSIVE EvidenceOf(_, _)
EvidenceOf(in, S) ==
  IF S = {} THEN <<>>
  ELSE <<in.stat[MinOf(S)].evidence.items[1]>> \o EvidenceOf(in, S \ {MinOf(S)})

\* C32: each static finding that collides with an existing record has its
\* evidence appended to a collection on that record, a single evidence
\* object being wrapped first: after k collisions the evidence is a list of
\* k + 1 entries, the original first and the incoming ones in arrival order.
\* (A detector finding whose key is taken never reaches the merge: C14.)
C32_EvidenceAppended ==
  Merged =>
    LET in == MergeInput
    IN \A key \in StaticKeys(in) :
         IncomingOf(in, key) # {} =>
           \A k \in RecordsOf(in, key) :
             /\ merged[k].evidence.array
             /\ Len(merged[k].evidence.items) = Cardinality(IncomingOf(in, key)) + 1
             /\ merged[k].evidence.items =
                  <<OriginalOf(in, key).evidence.items[1]>>
                    \o EvidenceOf(in, IncomingOf(in, key))

\* Two static findings with different evidence came in, one after the
\* other, under the key of a finding of the detector.
C32_Witness ==
  /\ Merged
  /\ LET in == MergeInput
     IN \E key \in StaticKeys(in) :
          /\ DynamicWith(in, key) # {}
          /\ \E j, l \in IncomingOf(in, key) : j < l /\ in.stat[j].evidence # in.stat[l].evidence
          /\ \E k \in RecordsOf(in, key) : Len(merged[k].evidence.items) >= 3


(***************************************************************************)
(* The dedup key and the objects of the caller's list.                     *)
(***************************************************************************)
\* The step in which mergeFindings runs on the list that was read.
MergeStep == pc = "loaded" /\ pc' = "merged"
AgainStep == pc = "merged" /\ pc' = "remerged"

\* The findings the call of the step works on: the list, then the static ones.
Candidates ==
  vulnResult \o normalizeSlitherFindings(slitherData') \o normalizeMythrilFindings(mythrilData')

CandidateSet == { Candidates[k] : k \in 1..Len(Candidates) }

HasFrame(finding) == EvidenceField(finding, "frameId", Undefined) # Undefined

\* The key as stated: the rule with the frame identifier alone, else with the
\* contract and function identifiers, else with the rule.
PreferredKey(finding) ==
  LET frameId == EvidenceField(finding, "frameId", Undefined)
      contract == EvidenceField(finding, "contract", <<>>)
      function == EvidenceField(finding, "function", <<>>)
  IN IF frameId # Undefined THEN <<finding.rule, "frame", frameId>>
     ELSE IF contract # <<>> \/ function # <<>>
          THEN <<finding.rule, "contract", contract, function>>
          ELSE <<finding.rule, "rule", finding.rule>>

C39_InputsUntouchedRepeatable ==
  [][/\ MergeStep => vulnResult' = vulnResult
     /\ AgainStep => merged' = merged]_vars

====
